---- MODULE Spec2Model ----
(***************************************************************************)
(* Offline-first task synchronisation: the client-side reconciliation      *)
(* engine (SyncService), the sqlite-backed task table and sync queue       *)
(* (Database).  The source holds two definitions of SyncService; the model *)
(* follows the first, the one that reads BatchSyncResponse.processed_items *)
(* as the /sync/batch route writes it and that calls the Database methods. *)
(*                                                                         *)
(* A storage call hands a statement to the sqlite connection, which runs   *)
(* the statements one at a time; the model takes the order in which they   *)
(* were handed over.  A caller that                                        *)
(* awaits the call resumes when its statement has run; a caller that does  *)
(* not await runs on while the statement is still in flight.  A handler    *)
(* runs without interruption between two awaited calls, so one action is   *)
(* one such run.  A call nobody awaits that throws while it builds its     *)
(* statement rejects a promise nobody handles: its write is dropped.       *)
(***************************************************************************)
EXTENDS Integers, Sequences, FiniteSets, TLC

\* ---------------------------------------------------------------- bounds
MaxItems == 2       \* queue items ever enqueued
MaxTime == 1        \* last instant of the clock (instants 0..MaxTime)
MaxPasses == 1      \* sync() calls
MaxStamp == 5       \* last updated_at instant resolveConflict is tried with
MaxDrained == 5     \* rows in the queue a pass on its own drains
MaxBatch == 3       \* largest batch size of a pass on its own
MaxRequests == 1    \* POST /batch requests the server handles
MaxServerRows == 1  \* tasks the server holds before the first request
MaxBatchItems == 2  \* items of one POST /batch request
MaxTurns == 2       \* turns of the batch loop followed below the array's start

TaskIds == {"t1", "t2"}
Operations == {"create", "update"}

\* ------------------------------------------------------- JavaScript values
\* Every value carries its runtime kind, so that a Date and the ISO string
\* of the same instant are different values, as are undefined, null and a
\* key that is absent from an object.
Absent == [k |-> "absent", s |-> "", n |-> 0]
Undef == [k |-> "undefined", s |-> "", n |-> 0]
NullV == [k |-> "null", s |-> "", n |-> 0]
Str(x) == [k |-> "string", s |-> x, n |-> 0]
Num(x) == [k |-> "number", s |-> "", n |-> x]
Bool(b) == [k |-> "boolean", s |-> "", n |-> IF b THEN 1 ELSE 0]
DateV(ms) == [k |-> "Date", s |-> "", n |-> ms]
Iso(ms) == [k |-> "string", s |-> "iso", n |-> ms]

\* v === undefined or v === null (a missing key reads as undefined)
Nullish(v) == v.k \in {"absent", "undefined", "null"}

\* ToBoolean(v)
Truthy(v) ==
    CASE v.k \in {"absent", "undefined", "null"} -> FALSE
      [] v.k = "string" -> v.s # ""
      [] v.k = "number" -> v.n # 0
      [] v.k = "boolean" -> v.n = 1
      [] OTHER -> TRUE

\* v ?? d
Coalesce(v, d) == IF Nullish(v) THEN d ELSE v

\* v has a toISOString method that returns
IsDate(v) == v.k = "Date"

\* v.toISOString() for a Date
ToISOString(v) == Iso(v.n)

\* new Date(v) for a Date or an ISO string
NewDate(v) == DateV(v.n)

\* ------------------------------------------------------------ Task objects
TaskFields ==
    {"title", "description", "completed", "created_at", "updated_at",
     "is_deleted", "sync_status", "server_id", "last_synced_at"}

\* {} as a Partial<Task>
NoFields == [f \in TaskFields |-> Absent]

\* { ...a, ...b }
Spread(a, b) == [f \in TaskFields |-> IF b[f] = Absent THEN a[f] ELSE b[f]]

\* JSON.parse(JSON.stringify(obj)): a Date becomes its ISO string and a key
\* whose value is undefined is dropped
JsonRoundTrip(obj) ==
    [f \in TaskFields |->
        IF obj[f].k = "Date" THEN Iso(obj[f].n)
        ELSE IF obj[f].k = "undefined" THEN Absent
        ELSE obj[f]]

\* --------------------------------------------------------------- Database
\* A row of table tasks -> Task, as getTaskById and updateTask read it.
RowToTask(row, t) ==
    [title |-> row.title,
     description |-> Coalesce(row.description, Undef),
     completed |-> Bool(Truthy(row.completed)),
     created_at |-> IF Truthy(row.created_at) THEN NewDate(row.created_at) ELSE DateV(t),
     updated_at |-> IF Truthy(row.updated_at) THEN NewDate(row.updated_at) ELSE DateV(t),
     is_deleted |-> Bool(Truthy(row.is_deleted)),
     server_id |-> Coalesce(row.server_id, Undef),
     sync_status |-> Coalesce(row.sync_status, Undef),
     last_synced_at |-> IF Truthy(row.last_synced_at) THEN NewDate(row.last_synced_at) ELSE Undef]

\* updateTask: the merge of the row read with the fields passed
UpdateTaskMerge(rows, task_id, arg1, t) ==
    Spread(IF task_id \in DOMAIN rows THEN RowToTask(rows[task_id], t) ELSE NoFields, arg1)

\* updateTask: building the statement's parameters throws (toISOString of a
\* value that is not a Date)
UpdateTaskThrows(updates) ==
    \E f \in {"created_at", "updated_at", "last_synced_at"} :
        Truthy(updates[f]) /\ ~IsDate(updates[f])

\* an upsert that never stores last_synced_at
UpdateTaskRowWithoutStamp(updates, t) ==
    [title |-> Coalesce(updates.title, Str("Untitled")),
     description |-> Coalesce(updates.description, NullV),
     completed |-> Num(IF Truthy(updates.completed) THEN 1 ELSE 0),
     created_at |-> ToISOString(IF Truthy(updates.created_at) THEN updates.created_at ELSE DateV(t)),
     updated_at |-> ToISOString(IF Truthy(updates.updated_at) THEN updates.updated_at ELSE DateV(t)),
     is_deleted |-> Num(IF Truthy(updates.is_deleted) THEN 1 ELSE 0),
     sync_status |-> Coalesce(updates.sync_status, NullV),
     server_id |-> Coalesce(updates.server_id, NullV),
     last_synced_at |-> NullV]

\* updateTask: the row the upsert writes
UpdateTaskRow(updates, t) ==
    [title |-> Coalesce(updates.title, Str("Untitled")),
     description |-> Coalesce(updates.description, NullV),
     completed |-> Num(IF Truthy(updates.completed) THEN 1 ELSE 0),
     created_at |-> ToISOString(IF Truthy(updates.created_at) THEN updates.created_at ELSE DateV(t)),
     updated_at |-> ToISOString(IF Truthy(updates.updated_at) THEN updates.updated_at ELSE DateV(t)),
     is_deleted |-> Num(IF Truthy(updates.is_deleted) THEN 1 ELSE 0),
     sync_status |-> Coalesce(updates.sync_status, NullV),
     server_id |-> Coalesce(updates.server_id, NullV),
     last_synced_at |-> IF Truthy(updates.last_synced_at)
                        THEN ToISOString(updates.last_synced_at) ELSE NullV]

\* insertTask: building the parameters throws
InsertTaskThrows(newTask) ==
    \/ ~Nullish(newTask.created_at) /\ ~IsDate(newTask.created_at)
    \/ ~Nullish(newTask.updated_at) /\ ~IsDate(newTask.updated_at)
    \/ Truthy(newTask.last_synced_at) /\ ~IsDate(newTask.last_synced_at)

\* insertTask: the row the upsert writes
InsertTaskRow(newTask, t) ==
    [title |-> newTask.title,
     description |-> Coalesce(newTask.description, NullV),
     completed |-> Num(IF Truthy(newTask.completed) THEN 1 ELSE 0),
     created_at |-> ToISOString(Coalesce(newTask.created_at, DateV(t))),
     updated_at |-> ToISOString(Coalesce(newTask.updated_at, DateV(t))),
     is_deleted |-> Num(IF Truthy(newTask.is_deleted) THEN 1 ELSE 0),
     sync_status |-> Coalesce(newTask.sync_status, NullV),
     server_id |-> Coalesce(newTask.server_id, NullV),
     last_synced_at |-> IF Truthy(newTask.last_synced_at)
                        THEN ToISOString(newTask.last_synced_at) ELSE NullV]

\* INSERT ... ON CONFLICT(id) DO UPDATE on table tasks
UpsertTask(rows, task_id, row) ==
    [x \in DOMAIN rows \cup {task_id} |-> IF x = task_id THEN row ELSE rows[x]]

\* insertSyncQueueItem: the row of table sync_queue
InsertSyncQueueItemRow(item) ==
    [id |-> item.id,
     task_id |-> item.task_id,
     operation |-> item.operation,
     data |-> JsonRoundTrip(item.data),
     created_at |-> item.created_at,
     retry_count |-> item.retry_count,
     error_message |-> Coalesce(item.error_message, NullV)]

\* a failure bookkeeping that keeps the row and stamps it anew
RECURSIVE RestampSyncQueueItem(_, _)
RestampSyncQueueItem(q, id) ==
    IF q = <<>> THEN <<>>
    ELSE IF Head(q).id = id
         THEN <<[Head(q) EXCEPT !.retry_count = @ + 1, !.created_at = @ + 1]>>
                 \o RestampSyncQueueItem(Tail(q), id)
         ELSE <<Head(q)>> \o RestampSyncQueueItem(Tail(q), id)

\* a removal that takes the oldest row when the id is not there
DeleteSyncQueueItemOrOldest(q, id) ==
    IF \E x \in 1..Len(q) : q[x].id = id
    THEN SelectSeq(q, LAMBDA r : r.id # id)
    ELSE IF q = <<>> THEN <<>> ELSE Tail(q)

\* DELETE FROM sync_queue WHERE id = ?  (the second argument is not used)
RECURSIVE DeleteSyncQueueItem(_, _)
DeleteSyncQueueItem(q, id) ==
    IF q = <<>> THEN <<>>
    ELSE IF Head(q).id = id THEN DeleteSyncQueueItem(Tail(q), id)
    ELSE <<Head(q)>> \o DeleteSyncQueueItem(Tail(q), id)

\* ORDER BY created_at ASC over the rows in rowid order
RECURSIVE InsertByCreatedAt(_, _)
InsertByCreatedAt(sorted, r) ==
    IF sorted = <<>> THEN <<r>>
    ELSE IF Head(sorted).created_at <= r.created_at
         THEN <<Head(sorted)>> \o InsertByCreatedAt(Tail(sorted), r)
         ELSE <<r>> \o sorted

RECURSIVE OrderByCreatedAt(_)
OrderByCreatedAt(q) ==
    IF q = <<>> THEN <<>>
    ELSE InsertByCreatedAt(OrderByCreatedAt(SubSeq(q, 1, Len(q) - 1)), q[Len(q)])

\* getAllSyncQueueItems: rows -> SyncQueueItem[]
GetAllSyncQueueItems(q) ==
    LET rows == OrderByCreatedAt(q)
    IN [x \in 1..Len(rows) |->
           [id |-> rows[x].id,
            task_id |-> rows[x].task_id,
            operation |-> rows[x].operation,
            data |-> rows[x].data,
            created_at |-> rows[x].created_at,
            retry_count |-> rows[x].retry_count,
            error_message |-> Coalesce(rows[x].error_message, Undef)]]

\* A statement handed to the connection and not yet run; by names the
\* handler that awaits it, if any.
Statement(op, task_id, qid, arg, by) ==
    [op |-> op, task_id |-> task_id, qid |-> qid, arg |-> arg, by |-> by]

Del(qid) == Statement("deleteSyncQueueItem", "", qid, NoFields, "")
UpdGet(task_id, arg1) == Statement("updateTask.get", task_id, 0, arg1, "")
UpdRun(task_id, row) == Statement("updateTask.run", task_id, 0, row, "")
InsRun(task_id, row) == Statement("insertTask.run", task_id, 0, row, "")
Awaited(op, task_id, by) == Statement(op, task_id, 0, NoFields, by)

Min(a, b) == IF a < b THEN a ELSE b

Max(a, b) == IF a < b THEN b ELSE a

\* the Number that is not a number, kept apart from every count of the model
NaN == 0 - 1000

\* a + b on Numbers
Plus(a, b) == IF a = NaN \/ b = NaN THEN NaN ELSE a + b

\* a < b on Numbers: false when either is NaN
Less(a, b) == a # NaN /\ b # NaN /\ a < b

\* Array.prototype.slice(start, end), indices from 0: NaN counts as 0, a
\* negative index counts from the end, both are clamped to the array
JsSlice(items, start, end) ==
    LET len == Len(items)
        rel(x) == IF x = NaN THEN 0 ELSE IF x < 0 THEN Max(len + x, 0) ELSE Min(x, len)
    IN SubSeq(items, rel(start) + 1, rel(end))

\* The tables once the connection has run the statements of fifo, none of
\* them awaited, and no handler has handed it another one meanwhile
RECURSIVE Settle(_, _, _, _)
Settle(rows, q, fifo, t) ==
    IF fifo = <<>> THEN [tasks |-> rows, queue |-> q]
    ELSE
      LET st == Head(fifo)
      IN IF st.op = "updateTask.get"
         THEN LET updates == UpdateTaskMerge(rows, st.task_id, st.arg, t)
              IN Settle(rows, q,
                        Tail(fifo) \o (IF UpdateTaskThrows(updates) THEN <<>>
                                       ELSE <<UpdRun(st.task_id, UpdateTaskRow(updates, t))>>),
                        t)
         ELSE IF st.op \in {"updateTask.run", "insertTask.run"}
              THEN Settle(UpsertTask(rows, st.task_id, st.arg), q, Tail(fifo), t)
         ELSE IF st.op = "deleteSyncQueueItem"
              THEN Settle(rows, DeleteSyncQueueItem(q, st.qid), Tail(fifo), t)
         ELSE Settle(rows, q, Tail(fifo), t)

\* ------------------------------------------------------------ SyncService
\* Server snapshots a disposition may carry as resolved_data.  axios parses
\* the response body as JSON, so a timestamp arrives as an ISO string.
WireTask(updated) ==
    [NoFields EXCEPT !.title = Str("remote"), !.completed = Bool(TRUE),
                     !.created_at = Iso(0), !.updated_at = Iso(updated),
                     !.is_deleted = Bool(FALSE), !.server_id = Str("s1")]
RemoteTasks == {WireTask(0), WireTask(MaxTime + 1)}

\* One entry of BatchSyncResponse.processed_items
Processed(client_id, status, server_id, has, resolved_data, error) ==
    [client_id |-> client_id, status |-> status, server_id |-> server_id,
     has_resolved_data |-> has, resolved_data |-> resolved_data, error |-> error]

DispositionsFor(id) ==
    {Processed(id, "success", Str("s1"), FALSE, NoFields, Undef),
     Processed(id, "success", Undef, TRUE, WireTask(MaxTime + 1), Undef),
     Processed(id, "conflict", Undef, FALSE, NoFields, Undef),
     Processed(id, "error", Undef, FALSE, NoFields, Str("rejected"))}
    \cup {Processed(id, "conflict", Str("s1"), TRUE, r, Undef) : r \in RemoteTasks}

\* The responses the transport may deliver for a batch: any sequence of at
\* most Len(batch) dispositions naming items of the batch (or no item: id 0)
Responses(batch) ==
    LET ids == {batch[x].id : x \in 1..Len(batch)}
        ds == UNION {DispositionsFor(id) : id \in ids}
              \cup {Processed(0, "error", Undef, FALSE, NoFields, Str("rejected"))}
    IN UNION {[1..n -> ds] : n \in 0..Len(batch)}

NewResult == [success |-> TRUE, synced_items |-> 0, failed_items |-> 0, errors |-> <<>>]

SyncError(task_id, operation, error) ==
    [task_id |-> task_id, operation |-> operation, error |-> error]

\* updateSyncStatus: the fields handed to updateTask
UpdateSyncStatusUpdates(status, serverData, t) ==
    [f \in TaskFields |->
        CASE f = "sync_status" -> Str(IF status = "synced" THEN "synced" ELSE "error")
          [] f = "last_synced_at" -> DateV(t)
          [] f = "server_id" ->
                IF Truthy(serverData.server_id) THEN serverData.server_id ELSE Absent
          [] OTHER ->
                IF serverData[f].k \in {"absent", "undefined"} THEN Absent ELSE serverData[f]]

\* handleSyncError: the fields handed to updateTask on a permanent failure
PermanentFailureUpdates(t) ==
    [title |-> Str(""), description |-> Undef, completed |-> Bool(FALSE),
     created_at |-> DateV(t), updated_at |-> DateV(t), is_deleted |-> Bool(FALSE),
     sync_status |-> Str("error"), server_id |-> Undef, last_synced_at |-> DateV(t)]

\* handleSyncError: the statements it hands to the connection, in order
HandleSyncError(item, ceiling, t) ==
    <<Del(item.id)>> \o
    (IF item.retry_count + 1 >= ceiling
     THEN <<UpdGet(item.task_id, PermanentFailureUpdates(t)), Del(item.id)>>
     ELSE <<>>)

\* new Date(v) of a string that is not a date
InvalidDate == [k |-> "Date", s |-> "Invalid Date", n |-> 0]

\* a fallback in which a missing timestamp compares like an unparseable one
UpdatedOrInvalid(v) ==
    IF Truthy(v) /\ (v.k = "Date" \/ (v.k = "string" /\ v.s = "iso")) THEN DateV(v.n)
    ELSE InvalidDate

\* v ? new Date(v) : new Date(0), for a Date, a string or nothing
UpdatedOrEpoch(v) ==
    IF ~Truthy(v) THEN DateV(0)
    ELSE IF v.k = "Date" \/ (v.k = "string" /\ v.s = "iso") THEN DateV(v.n)
    ELSE InvalidDate

\* a > b on two Dates (NaN compares false)
DateGreater(a, b) == a # InvalidDate /\ b # InvalidDate /\ a.n > b.n

\* a >= b on two Dates
DateGreaterOrEqual(a, b) == a # InvalidDate /\ b # InvalidDate /\ a.n >= b.n

\* a resolveConflict in which a tie goes to the server
ResolveConflictTieToServer(localTask, serverTask) ==
    DateGreaterOrEqual(UpdatedOrEpoch(serverTask.updated_at),
                       UpdatedOrEpoch(localTask.updated_at))

\* resolveConflict; local is NoFields when getTaskById returned null
ResolveConflictPicksServer(localTask, serverTask) ==
    DateGreater(UpdatedOrEpoch(serverTask.updated_at), UpdatedOrEpoch(localTask.updated_at))

\* sync, conflict branch: the fields handed to updateTask
ConflictUpdates(resolved, t) ==
    [f \in TaskFields |->
        CASE f = "sync_status" -> Str("synced")
          [] f = "last_synced_at" -> DateV(t)
          [] OTHER -> IF resolved[f] = Absent THEN Undef ELSE resolved[f]]

\* ------------------------------------------------------------------ state
VARIABLES
    tasks,        \* table tasks: task id -> row
    queue,        \* table sync_queue: rows in rowid order
    inflight,     \* the statements handed to the connection and not yet run
    now,          \* the clock new Date() reads
    nextId,       \* the next queue item id (uuidv4 never repeats)
    maxRetries,   \* SyncService.maxRetries
    batchSize,    \* SyncService.batchSize
    enq,          \* the addToSyncQueue call under way
    pc,           \* where the sync() call under way stands
    allItems,     \* sync: the drained items
    i,            \* sync: first index of the current batch (from 1)
    rest,         \* sync: dispositions of the current response not yet applied
    result,       \* sync: the SyncResult
    hist,         \* per queue item, what sync() did for it (history)
    passes,       \* sync() calls so far (history)
    ev,           \* the last step sync() took (history)
    resolve,      \* a call of resolveConflict on its own: arguments and return
    srv,          \* the server: its tables and the POST /batch request it handles
    other         \* a second call of sync() running beside the first

vars == <<tasks, queue, inflight, now, nextId, maxRetries, batchSize, enq, pc,
          allItems, i, rest, result, hist, passes, ev, resolve, srv, other>>

\* no second call of sync()
NoOther == [pc |-> "idle", allItems |-> <<>>, i |-> 1, rest |-> <<>>, result |-> NewResult]

\* the server before any request: empty tables
SrvIdle == [tasks |-> <<>>, queued |-> 0, fresh |-> 1, pc |-> "idle", items |-> <<>>,
            k |-> 1, out |-> <<>>, status |-> 0, requests |-> 0]

\* no call of resolveConflict on its own
NotResolving == [localTask |-> NoFields, serverTask |-> NoFields, chosen |-> "", phase |-> "none"]

ItemIds == 1..MaxItems

\* success: a success disposition was applied for the item (server_id: the
\* remote identifier it carried); remote: a conflict disposition carrying a
\* remote version was received for it; winner: the side resolveConflict chose
\* ("thrown" when the branch threw); nodata: a conflict disposition without
\* a remote version was received for it; ceiling: handleSyncError took its
\* permanent-failure branch; fails: handleSyncError calls, all passes;
\* synced, failed: what the item added to synced_items and failed_items of the
\* current pass.
NoHist == [success |-> FALSE, server_id |-> Undef, remote |-> FALSE, winner |-> "",
           nodata |-> FALSE, ceiling |-> FALSE, fails |-> 0, synced |-> 0, failed |-> 0]

\* a data payload of addToSyncQueue
Payloads == {[NoFields EXCEPT !.title = Str("local")]}

EnqIdle == [pc |-> "idle", id |-> 0, task_id |-> "", operation |-> "",
            data |-> NoFields, created_at |-> 0]

Init ==
    /\ tasks = << >>
    /\ queue = << >>
    /\ inflight = << >>
    /\ now = 0
    /\ nextId = 1
    /\ maxRetries \in {1, 2}
    /\ batchSize \in {1, 2}
    /\ enq = EnqIdle
    /\ pc = "idle"
    /\ allItems = << >>
    /\ i = 1
    /\ rest = << >>
    /\ result = NewResult
    /\ hist = [id \in ItemIds |-> NoHist]
    /\ passes = 0
    /\ ev = ""
    /\ resolve = NotResolving
    /\ srv = SrvIdle
    /\ other = NoOther

\* ------------------------------------------------------------------ clock
Tick ==
    /\ now < MaxTime
    /\ now' = now + 1
    /\ UNCHANGED <<other, srv, resolve, tasks, queue, inflight, nextId, maxRetries, batchSize, enq, pc,
                   allItems, i, rest, result, hist, passes, ev>>

\* ------------------------------------------------- SyncService.addToSyncQueue
\* the call, up to the awaited insertSyncQueueItem
AddToSyncQueue(taskId, operation, data) ==
    /\ enq.pc = "idle"
    /\ nextId <= MaxItems
    /\ enq' = [pc |-> "insert", id |-> nextId, task_id |-> taskId,
               operation |-> operation, data |-> data, created_at |-> now]
    /\ nextId' = nextId + 1
    /\ inflight' = Append(inflight, Awaited("insertSyncQueueItem", taskId, "addToSyncQueue"))
    /\ UNCHANGED <<other, srv, resolve, tasks, queue, now, maxRetries, batchSize, pc, allItems, i,
                   rest, result, hist, passes, ev>>

\* the INSERT runs; addToSyncQueue resumes, up to the awaited getTaskById
DbInsertSyncQueueItem ==
    /\ inflight # <<>>
    /\ Head(inflight).op = "insertSyncQueueItem"
    /\ queue' = Append(queue, InsertSyncQueueItemRow(
                    [id |-> enq.id, task_id |-> enq.task_id, operation |-> enq.operation,
                     data |-> enq.data, created_at |-> enq.created_at, retry_count |-> 0,
                     error_message |-> Undef]))
    /\ enq' = [enq EXCEPT !.pc = "get"]
    /\ inflight' = Append(Tail(inflight), Awaited("getTaskById", enq.task_id, "addToSyncQueue"))
    /\ UNCHANGED <<other, srv, resolve, tasks, now, nextId, maxRetries, batchSize, pc, allItems, i,
                   rest, result, hist, passes, ev>>

\* addToSyncQueue: the task built when no row exists
NewTask(data, t) ==
    [title |-> Coalesce(data.title, Str("Untitled")),
     description |-> IF data.description = Absent THEN Undef ELSE data.description,
     completed |-> Coalesce(data.completed, Bool(FALSE)),
     created_at |-> Coalesce(data.created_at, DateV(t)),
     updated_at |-> Coalesce(data.updated_at, DateV(t)),
     is_deleted |-> Coalesce(data.is_deleted, Bool(FALSE)),
     sync_status |-> Str("pending"),
     server_id |-> IF data.server_id = Absent THEN Undef ELSE data.server_id,
     last_synced_at |-> Coalesce(data.last_synced_at, DateV(t))]

\* the SELECT of getTaskById runs; addToSyncQueue resumes and runs to its end
AddToSyncQueueGet ==
    /\ inflight # <<>>
    /\ Head(inflight).op = "getTaskById"
    /\ Head(inflight).by = "addToSyncQueue"
    /\ inflight' = Tail(inflight) \o
          (IF enq.task_id \in DOMAIN tasks
           THEN <<UpdGet(enq.task_id,
                         [RowToTask(tasks[enq.task_id], now)
                             EXCEPT !.sync_status = Str("pending"),
                                    !.updated_at = DateV(now)])>>
           ELSE IF InsertTaskThrows(NewTask(enq.data, now)) THEN <<>>
           ELSE <<InsRun(enq.task_id, InsertTaskRow(NewTask(enq.data, now), now))>>)
    /\ enq' = EnqIdle
    /\ UNCHANGED <<other, srv, resolve, tasks, queue, now, nextId, maxRetries, batchSize, pc, allItems,
                   i, rest, result, hist, passes, ev>>

\* ------------------------------------------- statements nobody is awaiting
\* updateTask: its SELECT runs; the parameters are built and the upsert is
\* handed to the connection, unless building them throws
DbUpdateTaskGet ==
    /\ inflight # <<>>
    /\ Head(inflight).op = "updateTask.get"
    /\ LET st == Head(inflight)
           updates == UpdateTaskMerge(tasks, st.task_id, st.arg, now)
       IN inflight' = Tail(inflight) \o
             (IF UpdateTaskThrows(updates) THEN <<>>
              ELSE <<UpdRun(st.task_id, UpdateTaskRow(updates, now))>>)
    /\ UNCHANGED <<other, srv, resolve, tasks, queue, now, nextId, maxRetries, batchSize, enq, pc,
                   allItems, i, rest, result, hist, passes, ev>>

\* the upsert of updateTask or insertTask runs
DbUpsertTask ==
    /\ inflight # <<>>
    /\ Head(inflight).op \in {"updateTask.run", "insertTask.run"}
    /\ tasks' = UpsertTask(tasks, Head(inflight).task_id, Head(inflight).arg)
    /\ inflight' = Tail(inflight)
    /\ UNCHANGED <<other, srv, resolve, queue, now, nextId, maxRetries, batchSize, enq, pc, allItems,
                   i, rest, result, hist, passes, ev>>

\* the DELETE of deleteSyncQueueItem runs
DbDeleteSyncQueueItem ==
    /\ inflight # <<>>
    /\ Head(inflight).op = "deleteSyncQueueItem"
    /\ queue' = DeleteSyncQueueItem(queue, Head(inflight).qid)
    /\ inflight' = Tail(inflight)
    /\ UNCHANGED <<other, srv, resolve, tasks, now, nextId, maxRetries, batchSize, enq, pc, allItems,
                   i, rest, result, hist, passes, ev>>

\* ------------------------------------------------------- SyncService.sync
\* What one uninterrupted run of sync() has done so far: the statements handed
\* to the connection (in order), the result, the history, and where it stops.
Run(issued, res, h, next, rst) ==
    [issued |-> issued, result |-> res, hist |-> h, next |-> next, rest |-> rst]

\* a failure that leaves result.success alone
FailItemKeepsSuccess(acc, item, error) ==
    [acc EXCEPT
        !.issued = @ \o HandleSyncError(item, maxRetries, now),
        !.result = [@ EXCEPT !.failed_items = @ + 1,
                             !.errors = Append(@, SyncError(item.task_id, item.operation, error))],
        !.hist = [@ EXCEPT ![item.id] =
                    [@ EXCEPT !.fails = @ + 1,
                              !.failed = @ + 1,
                              !.ceiling = @ \/ item.retry_count + 1 >= maxRetries]]]

\* a failure that reports nothing once the item is at the retry ceiling
FailItemSilentAtCeiling(acc, item, error) ==
    [acc EXCEPT
        !.issued = @ \o HandleSyncError(item, maxRetries, now),
        !.result = [@ EXCEPT !.failed_items = @ + 1,
                             !.success = FALSE,
                             !.errors = IF item.retry_count + 1 >= maxRetries THEN @
                                        ELSE Append(@, SyncError(item.task_id, item.operation, error))],
        !.hist = [@ EXCEPT ![item.id] =
                    [@ EXCEPT !.fails = @ + 1,
                              !.failed = @ + 1,
                              !.ceiling = @ \/ item.retry_count + 1 >= maxRetries]]]

\* handleSyncError(item, ...); failed_items += 1; success = false; errors.push(...)
FailItem(acc, item, error) ==
    [acc EXCEPT
        !.issued = @ \o HandleSyncError(item, maxRetries, now),
        !.result = [@ EXCEPT !.failed_items = @ + 1,
                             !.success = FALSE,
                             !.errors = Append(@, SyncError(item.task_id, item.operation, error))],
        !.hist = [@ EXCEPT ![item.id] =
                    [@ EXCEPT !.fails = @ + 1,
                              !.failed = @ + 1,
                              !.ceiling = @ \/ item.retry_count + 1 >= maxRetries]]]

\* a catch block that handles the first item of the batch only
CatchBlockFirstOnly(acc, batch, error) ==
    IF batch = <<>> THEN [acc EXCEPT !.next = "end", !.rest = <<>>]
    ELSE [FailItem(acc, Head(batch), error) EXCEPT !.next = "end", !.rest = <<>>]

\* the catch block of the batch loop
RECURSIVE CatchBlock(_, _, _)
CatchBlock(acc, batch, error) ==
    IF batch = <<>> THEN [acc EXCEPT !.next = "end", !.rest = <<>>]
    ELSE CatchBlock(FailItem(acc, Head(batch), error), Tail(batch), error)

\* batch.find((b) => b.id === clientId): its index, 0 when there is none
Find(batch, clientId) ==
    IF \E x \in 1..Len(batch) : batch[x].id = clientId
    THEN CHOOSE x \in 1..Len(batch) :
            batch[x].id = clientId /\ \A y \in 1..(x - 1) : batch[y].id # clientId
    ELSE 0

\* status === 'success': updateSyncStatus hands the update to the connection
\* and then iterates over the promise findSyncQueueItemsByTaskId returned,
\* which is not iterable: the TypeError lands in the catch block.  (The SELECT
\* of findSyncQueueItemsByTaskId changes nothing and nobody reads its rows.)
ApplySuccess(acc, batch, queueItem, processed) ==
    LET serverData == Spread([NoFields EXCEPT !.server_id = processed.server_id],
                             processed.resolved_data)
        sent == [acc EXCEPT
                    !.issued = Append(@, UpdGet(queueItem.task_id,
                                   UpdateSyncStatusUpdates("synced", serverData, now))),
                    !.hist = [@ EXCEPT ![queueItem.id] =
                                [@ EXCEPT !.success = TRUE,
                                          !.server_id = processed.server_id]]]
    IN CatchBlock(sent, batch, "queueItems is not iterable")

\* a disposition loop whose error branch fails every item of the batch
RECURSIVE ApplyResultsErrorFailsBatch(_, _, _)
ApplyResultsErrorFailsBatch(acc, batch, processed_items) ==
    IF processed_items = <<>> THEN [acc EXCEPT !.next = "end", !.rest = <<>>]
    ELSE
      LET processed == Head(processed_items)
          x == Find(batch, processed.client_id)
      IN IF x = 0 THEN ApplyResultsErrorFailsBatch(acc, batch, Tail(processed_items))
         ELSE IF processed.status = "success"
              THEN ApplySuccess(acc, batch, batch[x], processed)
         ELSE IF processed.status = "conflict"
              THEN IF processed.has_resolved_data
                   THEN [acc EXCEPT !.next = "get", !.rest = processed_items,
                                    !.hist = [@ EXCEPT ![batch[x].id] =
                                                [@ EXCEPT !.remote = TRUE]]]
                   ELSE ApplyResultsErrorFailsBatch(
                          FailItem([acc EXCEPT !.hist = [@ EXCEPT ![batch[x].id] =
                                                           [@ EXCEPT !.nodata = TRUE]]],
                                   batch[x], "Conflict resolved failed: no resolved data"),
                          batch, Tail(processed_items))
         ELSE IF processed.status = "error"
              THEN ApplyResultsErrorFailsBatch(
                     [CatchBlock(acc, batch, processed.error.s) EXCEPT !.next = acc.next],
                     batch, Tail(processed_items))
         ELSE ApplyResultsErrorFailsBatch(acc, batch, Tail(processed_items))

\* the loop over processed_items, up to the next awaited storage read, the end
\* of the response or an exception
RECURSIVE ApplyResults(_, _, _)
ApplyResults(acc, batch, processed_items) ==
    IF processed_items = <<>> THEN [acc EXCEPT !.next = "end", !.rest = <<>>]
    ELSE
      LET processed == Head(processed_items)
          x == Find(batch, processed.client_id)
      IN IF x = 0 THEN ApplyResults(acc, batch, Tail(processed_items))
         ELSE IF processed.status = "success"
              THEN ApplySuccess(acc, batch, batch[x], processed)
         ELSE IF processed.status = "conflict"
              THEN IF processed.has_resolved_data
                   THEN [acc EXCEPT !.next = "get", !.rest = processed_items,
                                    !.hist = [@ EXCEPT ![batch[x].id] =
                                                [@ EXCEPT !.remote = TRUE]]]
                   ELSE ApplyResults(
                          FailItem([acc EXCEPT !.hist = [@ EXCEPT ![batch[x].id] =
                                                           [@ EXCEPT !.nodata = TRUE]]],
                                   batch[x], "Conflict resolved failed: no resolved data"),
                          batch, Tail(processed_items))
         ELSE IF processed.status = "error"
              THEN ApplyResults(
                     FailItem(acc, batch[x],
                              IF Truthy(processed.error) THEN processed.error.s
                              ELSE "Unknown server error"),
                     batch, Tail(processed_items))
         ELSE ApplyResults(acc, batch, Tail(processed_items))

\* conflict branch after getTaskById returned; rows is table tasks as the
\* SELECT saw it
ApplyConflict(acc, batch, queueItem, processed, rows) ==
    LET found == queueItem.task_id \in DOMAIN rows
        localTask == IF found THEN RowToTask(rows[queueItem.task_id], now) ELSE NoFields
        server == ResolveConflictPicksServer(localTask, processed.resolved_data)
        resolved == IF server THEN processed.resolved_data ELSE localTask
    IN IF ~server /\ ~found
       THEN CatchBlock([acc EXCEPT !.hist = [@ EXCEPT ![queueItem.id] =
                                               [@ EXCEPT !.winner = "thrown"]]],
                       batch, "Cannot read properties of null")
       ELSE [acc EXCEPT
               !.next = "more",
               !.issued = @ \o <<UpdGet(queueItem.task_id, ConflictUpdates(resolved, now)),
                                 Del(queueItem.id)>>,
               !.result = [@ EXCEPT !.synced_items = @ + 1],
               !.hist = [@ EXCEPT ![queueItem.id] =
                           [@ EXCEPT !.winner = IF server THEN "server" ELSE "local",
                                     !.synced = @ + 1]]]

\* a slice that takes one item too many
SliceOneMore == SubSeq(allItems, i, Min(i + batchSize, Len(allItems)))

\* allItems.slice(i, i + this.batchSize); the model's i is the code's i + 1
CurrentBatch == JsSlice(allItems, Plus(i, 0 - 1), Plus(Plus(i, 0 - 1), batchSize))

\* a batch loop that returns after the first batch with a failure
ContinueUntilFailure(acc, fifo) ==
    /\ result' = acc.result
    /\ hist' = acc.hist
    /\ IF acc.next = "get"
       THEN /\ pc' = "get"
            /\ rest' = acc.rest
            /\ i' = i
            /\ inflight' = fifo \o acc.issued \o
                  <<Awaited("getTaskById",
                            CurrentBatch[Find(CurrentBatch, Head(acc.rest).client_id)].task_id,
                            "sync")>>
       ELSE /\ rest' = <<>>
            /\ i' = i + batchSize
            /\ pc' = IF i + batchSize <= Len(allItems) /\ acc.result.success
                     THEN "batch" ELSE "returned"
            /\ inflight' = fifo \o acc.issued

\* the state after an uninterrupted run of the batch loop; fifo is the
\* connection's queue the run started with
Continue(acc, fifo) ==
    /\ result' = acc.result
    /\ hist' = acc.hist
    /\ IF acc.next = "get"
       THEN /\ pc' = "get"
            /\ rest' = acc.rest
            /\ i' = i
            /\ inflight' = fifo \o acc.issued \o
                  <<Awaited("getTaskById",
                            CurrentBatch[Find(CurrentBatch, Head(acc.rest).client_id)].task_id,
                            "sync")>>
       ELSE /\ rest' = <<>>
            /\ i' = Plus(i, batchSize)
            /\ pc' = IF Less(Plus(Plus(i, batchSize), 0 - 1), Len(allItems))
                     THEN "batch" ELSE "returned"
            /\ inflight' = fifo \o acc.issued

\* the SyncResult of a pass that found the server unreachable
Unreachable ==
    [NewResult EXCEPT
        !.success = FALSE,
        !.errors = <<SyncError("N/A", "connectivity", "Server unreachable")>>]

\* a sync() that goes on to drain the queue whatever the probe reported
SyncIgnoringProbe(online) ==
    /\ pc \in {"idle", "returned"}
    /\ passes < MaxPasses
    /\ passes' = passes + 1
    /\ ev' = IF online THEN "reachable" ELSE "unreachable"
    /\ result' = NewResult
    /\ pc' = "drain"
    /\ inflight' = Append(inflight, Awaited("getAllSyncQueueItems", "", "sync"))
    /\ allItems' = <<>>
    /\ i' = 1
    /\ rest' = <<>>
    /\ hist' = [id \in ItemIds |-> [hist[id] EXCEPT !.synced = 0, !.failed = 0]]
    /\ UNCHANGED <<other, srv, resolve, tasks, queue, now, nextId, maxRetries, batchSize, enq>>

\* sync() is called and checkConnectivity returns; when online, up to the
\* awaited getAllSyncQueueItems
SyncCheckConnectivity(online) ==
    /\ pc \in {"idle", "returned"}
    /\ passes < MaxPasses
    /\ passes' = passes + 1
    /\ ev' = IF online THEN "reachable" ELSE "unreachable"
    /\ result' = IF online THEN NewResult ELSE Unreachable
    /\ pc' = IF online THEN "drain" ELSE "returned"
    /\ inflight' = IF online
                   THEN Append(inflight, Awaited("getAllSyncQueueItems", "", "sync"))
                   ELSE inflight
    /\ allItems' = <<>>
    /\ i' = 1
    /\ rest' = <<>>
    /\ hist' = [id \in ItemIds |-> [hist[id] EXCEPT !.synced = 0, !.failed = 0]]
    /\ UNCHANGED <<other, srv, resolve, tasks, queue, now, nextId, maxRetries, batchSize, enq>>

\* a sync that enters the batch loop whatever the queue held
SyncGetAllNoEmptyCheck ==
    /\ inflight # <<>>
    /\ Head(inflight).op = "getAllSyncQueueItems"
    /\ allItems' = GetAllSyncQueueItems(queue)
    /\ pc' = "batch"
    /\ inflight' = Tail(inflight)
    /\ ev' = "drain"
    /\ UNCHANGED <<other, srv, resolve, tasks, queue, now, nextId, maxRetries, batchSize, enq,
                   i, rest, result, hist, passes>>

\* the SELECT of getAllSyncQueueItems runs; sync resumes, up to processBatch
SyncGetAll ==
    /\ inflight # <<>>
    /\ Head(inflight).op = "getAllSyncQueueItems"
    /\ Head(inflight).by = "sync"
    /\ allItems' = GetAllSyncQueueItems(queue)
    /\ pc' = IF Len(allItems') = 0 THEN "returned" ELSE "batch"
    /\ inflight' = Tail(inflight)
    /\ ev' = "drain"
    /\ UNCHANGED <<other, srv, resolve, tasks, queue, now, nextId, maxRetries, batchSize, enq,
                   i, rest, result, hist, passes>>

\* processBatch throws: the request failed
SyncBatchFails ==
    /\ pc = "batch"
    /\ Continue(CatchBlock(Run(<<>>, result, hist, "end", <<>>), CurrentBatch,
                           "Network Error"), inflight)
    /\ ev' = "transport"
    /\ UNCHANGED <<other, srv, resolve, tasks, queue, now, nextId, maxRetries, batchSize, enq, allItems, passes>>

\* processBatch returns the server's response
SyncBatchResponse(resp) ==
    /\ pc = "batch"
    /\ Continue(ApplyResults(Run(<<>>, result, hist, "end", <<>>), CurrentBatch, resp),
                inflight)
    /\ ev' = "response"
    /\ UNCHANGED <<other, srv, resolve, tasks, queue, now, nextId, maxRetries, batchSize, enq, allItems, passes>>

\* the SELECT of the getTaskById awaited in the conflict branch runs; sync
\* resumes
SyncGetTaskById ==
    /\ inflight # <<>>
    /\ Head(inflight).op = "getTaskById"
    /\ Head(inflight).by = "sync"
    /\ LET batch == CurrentBatch
           processed == Head(rest)
           queueItem == batch[Find(batch, processed.client_id)]
           done == ApplyConflict(Run(<<>>, result, hist, "end", <<>>), batch,
                                 queueItem, processed, tasks)
       IN Continue(IF done.next = "more"
                   THEN ApplyResults(done, batch, Tail(rest))
                   ELSE done,
                   Tail(inflight))
    /\ ev' = "get"
    /\ UNCHANGED <<other, srv, resolve, tasks, queue, now, nextId, maxRetries, batchSize, enq, allItems, passes>>

Next ==
    \/ Tick
    \/ \E t \in TaskIds, o \in Operations, d \in Payloads : AddToSyncQueue(t, o, d)
    \/ DbInsertSyncQueueItem
    \/ AddToSyncQueueGet
    \/ DbUpdateTaskGet
    \/ DbUpsertTask
    \/ DbDeleteSyncQueueItem
    \/ \E online \in BOOLEAN : SyncCheckConnectivity(online)
    \/ SyncGetAll
    \/ SyncBatchFails
    \/ \E resp \in Responses(CurrentBatch) : SyncBatchResponse(resp)
    \/ SyncGetTaskById

Spec == Init /\ [][Next]_vars

\* ------------------------------------------- SyncService.resolveConflict alone
\* a timestamp that does not parse
Unparseable == Str("not a date")

\* the local versions resolveConflict is called with: a Task as getTaskById
\* builds it, with updated_at a Date, missing or unparseable
LocalVersions ==
    {[NoFields EXCEPT !.title = Str("local"), !.completed = Bool(FALSE),
                      !.created_at = DateV(0), !.updated_at = u,
                      !.is_deleted = Bool(FALSE), !.sync_status = Str("pending")] :
        u \in {DateV(t) : t \in 0..MaxStamp} \cup {Undef, Unparseable}}

\* the server versions: a task of the response body, with updated_at an ISO
\* string, missing or unparseable
RemoteVersions ==
    {[WireTask(0) EXCEPT !.updated_at = u] :
        u \in {Iso(t) : t \in 0..MaxStamp} \cup {Absent, Unparseable}}

InitResolve ==
    /\ tasks = << >>
    /\ queue = << >>
    /\ inflight = << >>
    /\ now = 0
    /\ nextId = 1
    /\ maxRetries = 1
    /\ batchSize = 1
    /\ enq = EnqIdle
    /\ pc = "idle"
    /\ allItems = << >>
    /\ i = 1
    /\ rest = << >>
    /\ result = NewResult
    /\ hist = [id \in ItemIds |-> NoHist]
    /\ passes = 0
    /\ ev = ""
    /\ resolve \in {[localTask |-> l, serverTask |-> r, chosen |-> "", phase |-> "called"] :
                       l \in LocalVersions, r \in RemoteVersions}
    /\ srv = SrvIdle
    /\ other = NoOther

\* resolveConflict(localTask, serverTask) returns
ResolveConflict ==
    /\ resolve.phase = "called"
    /\ resolve' = [resolve EXCEPT
                      !.phase = "returned",
                      !.chosen = IF ResolveConflictPicksServer(resolve.localTask,
                                                               resolve.serverTask)
                                 THEN "server" ELSE "local"]
    /\ UNCHANGED <<other, srv, tasks, queue, inflight, now, nextId, maxRetries, batchSize, enq, pc,
                   allItems, i, rest, result, hist, passes, ev>>

NextResolve == ResolveConflict

SpecResolve == InitResolve /\ [][NextResolve]_vars

\* ------------------------------------------- a pass over a queue filled before
\* the task of the x-th enqueued item
TaskOf(x) == IF x % 2 = 1 THEN "t1" ELSE "t2"

\* the queues n calls of addToSyncQueue leave, made at instants that do not
\* go back
DrainedQueues ==
    UNION {{[x \in 1..n |->
                InsertSyncQueueItemRow(
                    [id |-> x, task_id |-> TaskOf(x), operation |-> "update",
                     data |-> [NoFields EXCEPT !.title = Str("local")],
                     created_at |-> c[x], retry_count |-> 0, error_message |-> Undef])] :
              c \in {d \in [1..n -> 0..MaxTime] :
                        \A x \in 1..n, y \in 1..n : x < y => d[x] <= d[y]}} :
           n \in 0..MaxDrained}

\* the tasks table those calls leave
RECURSIVE TasksOf(_)
TasksOf(q) ==
    IF q = <<>> THEN <<>>
    ELSE LET r == q[Len(q)]
             before == TasksOf(SubSeq(q, 1, Len(q) - 1))
         IN IF r.task_id \notin DOMAIN before
            THEN UpsertTask(before, r.task_id, InsertTaskRow(NewTask(r.data, r.created_at), r.created_at))
            ELSE before

\* sync() has passed the connectivity check and awaits getAllSyncQueueItems
InitDrain ==
    /\ queue \in DrainedQueues
    /\ tasks = TasksOf(queue)
    /\ inflight = <<Awaited("getAllSyncQueueItems", "", "sync")>>
    /\ now = MaxTime
    /\ nextId = Len(queue) + 1
    /\ maxRetries = 2
    /\ batchSize \in 1..MaxBatch
    /\ enq = EnqIdle
    /\ pc = "drain"
    /\ allItems = << >>
    /\ i = 1
    /\ rest = << >>
    /\ result = NewResult
    /\ hist = [id \in 1..MaxDrained |-> NoHist]
    /\ passes = 1
    /\ ev = "reachable"
    /\ resolve = NotResolving
    /\ srv = SrvIdle
    /\ other = NoOther

NextDrain ==
    \/ SyncGetAll
    \/ SyncBatchFails
    \/ DbDeleteSyncQueueItem

SpecDrain == InitDrain /\ [][NextDrain]_vars

\* --------------------------------------------- a pass over a failing storage
\* sqlite reports an error for a statement: the promise of run, get or all
\* rejects.

\* the statements nobody awaits
Unawaited == {"deleteSyncQueueItem", "updateTask.get", "updateTask.run", "insertTask.run"}

InitFault ==
    /\ queue \in {q \in DrainedQueues : Len(q) <= MaxItems}
    /\ tasks = TasksOf(queue)
    /\ inflight = <<Awaited("getAllSyncQueueItems", "", "sync")>>
    /\ now = MaxTime
    /\ nextId = Len(queue) + 1
    /\ maxRetries \in {1, 2}
    /\ batchSize \in {1, 2}
    /\ enq = EnqIdle
    /\ pc = "drain"
    /\ allItems = << >>
    /\ i = 1
    /\ rest = << >>
    /\ result = NewResult
    /\ hist = [id \in 1..MaxDrained |-> NoHist]
    /\ passes = 1
    /\ ev = "reachable"
    /\ resolve = NotResolving
    /\ srv = SrvIdle
    /\ other = NoOther

\* the SELECT of getAllSyncQueueItems fails: the await is outside the try, so
\* sync() rejects
SyncGetAllFails ==
    /\ inflight # <<>>
    /\ Head(inflight).op = "getAllSyncQueueItems"
    /\ pc' = "threw"
    /\ inflight' = Tail(inflight)
    /\ ev' = "storage"
    /\ UNCHANGED <<other, srv, resolve, tasks, queue, now, nextId, maxRetries, batchSize, enq,
                   allItems, i, rest, result, hist, passes>>

\* the SELECT of the getTaskById awaited in the conflict branch fails: the
\* rejection is thrown inside the try and the catch block of the batch runs
SyncGetTaskByIdFails ==
    /\ inflight # <<>>
    /\ Head(inflight).op = "getTaskById"
    /\ Head(inflight).by = "sync"
    /\ Continue(CatchBlock(Run(<<>>, result, hist, "end", <<>>), CurrentBatch,
                           "SQLITE_ERROR"), Tail(inflight))
    /\ ev' = "storage"
    /\ UNCHANGED <<other, srv, resolve, tasks, queue, now, nextId, maxRetries, batchSize, enq, allItems, passes>>

\* a statement nobody awaits fails: its promise rejects with no handler. The
\* runtime ignores the rejection, or ends the process on it.
DbUnawaitedFails(ends) ==
    /\ inflight # <<>>
    /\ Head(inflight).op \in Unawaited
    /\ pc \notin {"crashed"}
    /\ inflight' = IF ends THEN <<>> ELSE Tail(inflight)
    /\ pc' = IF ends THEN "crashed" ELSE pc
    /\ ev' = "storage"
    /\ UNCHANGED <<other, srv, resolve, tasks, queue, now, nextId, maxRetries, batchSize, enq,
                   allItems, i, rest, result, hist, passes>>

NextFault ==
    \/ SyncGetAll
    \/ SyncGetAllFails
    \/ SyncBatchFails
    \/ \E resp \in Responses(CurrentBatch) : SyncBatchResponse(resp)
    \/ SyncGetTaskById
    \/ SyncGetTaskByIdFails
    \/ DbUpdateTaskGet
    \/ DbUpsertTask
    \/ DbDeleteSyncQueueItem
    \/ \E ends \in BOOLEAN : DbUnawaitedFails(ends)

SpecFault == InitFault /\ [][NextFault]_vars

\* ------------------------------------------ Database.deleteSyncQueueItem alone
\* deleteSyncQueueItem(id) is called twice on a queue filled before, for an id
\* the queue holds or not
InitRemove ==
    /\ queue \in DrainedQueues
    /\ tasks = TasksOf(queue)
    /\ \E id \in 0..(MaxDrained + 1) : inflight = <<Del(id), Del(id)>>
    /\ now = MaxTime
    /\ nextId = Len(queue) + 1
    /\ maxRetries = 1
    /\ batchSize = 1
    /\ enq = EnqIdle
    /\ pc = "idle"
    /\ allItems = << >>
    /\ i = 1
    /\ rest = << >>
    /\ result = NewResult
    /\ hist = [id \in 1..MaxDrained |-> NoHist]
    /\ passes = 0
    /\ ev = ""
    /\ resolve = NotResolving
    /\ srv = SrvIdle
    /\ other = NoOther

NextRemove == DbDeleteSyncQueueItem

SpecRemove == InitRemove /\ [][NextRemove]_vars

\* ------------------------------------------ addToSyncQueue over a failing storage
\* the INSERT of insertSyncQueueItem fails: the await rejects and
\* addToSyncQueue rejects with it
DbInsertSyncQueueItemFails ==
    /\ inflight # <<>>
    /\ Head(inflight).op = "insertSyncQueueItem"
    /\ enq' = [enq EXCEPT !.pc = "threw"]
    /\ inflight' = Tail(inflight)
    /\ ev' = "storage"
    /\ UNCHANGED <<other, srv, resolve, tasks, queue, now, nextId, maxRetries, batchSize, pc, allItems, i,
                   rest, result, hist, passes>>

\* the SELECT of the getTaskById awaited by addToSyncQueue fails:
\* addToSyncQueue rejects, the row is in the queue already
AddToSyncQueueGetFails ==
    /\ inflight # <<>>
    /\ Head(inflight).op = "getTaskById"
    /\ Head(inflight).by = "addToSyncQueue"
    /\ enq' = [enq EXCEPT !.pc = "threw"]
    /\ inflight' = Tail(inflight)
    /\ ev' = "storage"
    /\ UNCHANGED <<other, srv, resolve, tasks, queue, now, nextId, maxRetries, batchSize, pc, allItems, i,
                   rest, result, hist, passes>>

\* the caller of addToSyncQueue gets the rejection
AddToSyncQueueRejects ==
    /\ enq.pc = "threw"
    /\ enq' = EnqIdle
    /\ ev' = "rejected"
    /\ UNCHANGED <<other, srv, resolve, tasks, queue, inflight, now, nextId, maxRetries, batchSize, pc,
                   allItems, i, rest, result, hist, passes>>

NextEnqueue ==
    \/ Tick
    \/ \E t \in TaskIds, o \in Operations, d \in Payloads : AddToSyncQueue(t, o, d)
    \/ DbInsertSyncQueueItem
    \/ DbInsertSyncQueueItemFails
    \/ AddToSyncQueueGet
    \/ AddToSyncQueueGetFails
    \/ AddToSyncQueueRejects
    \/ DbUpdateTaskGet
    \/ DbUpsertTask
    \/ \E ends \in BOOLEAN : DbUnawaitedFails(ends)

SpecEnqueue == Init /\ [][NextEnqueue]_vars

\* --------------------------------------- addToSyncQueue with stamped payloads
\* payloads that carry the timestamps of the local edit, both, one or none;
\* with both, updated_at is not before created_at
StampedPayloads ==
    {p \in {[NoFields EXCEPT !.title = Str("local"), !.created_at = c, !.updated_at = u] :
               c \in {Absent} \cup {DateV(t) : t \in 0..MaxTime},
               u \in {Absent} \cup {DateV(t) : t \in 0..MaxTime}} :
        (p.created_at # Absent /\ p.updated_at # Absent) => p.updated_at.n >= p.created_at.n}

\* the payload's timestamps are not after the clock
NotAhead(d) ==
    /\ d.created_at # Absent => d.created_at.n <= now
    /\ d.updated_at # Absent => d.updated_at.n <= now

NextStamped ==
    \/ Tick
    \/ \E t \in TaskIds, o \in Operations, d \in StampedPayloads :
          /\ NotAhead(d)
          /\ AddToSyncQueue(t, o, d)
    \/ DbInsertSyncQueueItem
    \/ AddToSyncQueueGet
    \/ DbUpdateTaskGet
    \/ DbUpsertTask

SpecStamped == Init /\ [][NextStamped]_vars

\* ------------------------------------------ routes/sync.ts: POST /sync/batch
\* The server's side: the handler of POST /batch and the TaskService it
\* calls, on the server's own tables. Ids are numbers here: 0 is the empty
\* string, LocalId an id the client made up, 1, 2, ... the ids uuidv4 gave
\* the server.
LocalId == 0 - 1

WireOperations == {"create", "update", "delete", "archive"}

\* the data of an item, as JSON.parse left it
WireData ==
    {[title |-> ti, updated_at |-> u] :
        ti \in {Absent, Str("new")}, u \in {Iso(t) : t \in 0..MaxTime}}

\* the items a client can send: the target is missing, made up by the client,
\* or an id the server has given out
WireItems(fresh) ==
    {[task_id |-> t, operation |-> o, data |-> d] :
        t \in {0, LocalId} \cup 1..(fresh - 1), o \in WireOperations, d \in WireData}

\* body.items, each item under its own queue id
BatchItems(fresh) ==
    UNION {{[x \in 1..n |-> [id |-> x, task_id |-> f[x].task_id,
                             operation |-> f[x].operation, data |-> f[x].data]] :
              f \in [1..n -> WireItems(fresh)]} : n \in 0..MaxBatchItems}

\* SELECT * FROM tasks WHERE id = ? LIMIT 1: the index of the row, 0 for none
ServerRow(rows, id) ==
    IF \E x \in 1..Len(rows) : rows[x].id = id
    THEN CHOOSE x \in 1..Len(rows) : rows[x].id = id
    ELSE 0

NoTask == [id |-> 0, title |-> Absent, created_at |-> 0, updated_at |-> 0, is_deleted |-> FALSE]

\* What a TaskService call did: the tables after it, what it returned (NoTask
\* for null or a boolean), whether it threw
Outcome(rows, queued, fresh, ret, threw, error) ==
    [tasks |-> rows, queued |-> queued, fresh |-> fresh, ret |-> ret, threw |-> threw,
     error |-> error]

\* TaskService.createTask(payload); fails: the INSERT into tasks is rejected.
\* The INSERT into sync_queue names a column the table does not have, and its
\* error is caught.
TaskServiceCreateTask(sv, payload, t, fails) ==
    LET task == [id |-> sv.fresh,
                 title |-> Coalesce(payload.title, Str("")),
                 created_at |-> t, updated_at |-> t, is_deleted |-> FALSE]
    IN IF fails THEN Outcome(sv.tasks, sv.queued, sv.fresh + 1, NoTask, TRUE, "SQLITE_ERROR")
       ELSE Outcome(Append(sv.tasks, task), sv.queued, sv.fresh + 1, task, FALSE, "")

\* TaskService.updateTask(id, updates); fails: the first statement is rejected
TaskServiceUpdateTask(sv, id, updates, t, fails) ==
    LET x == ServerRow(sv.tasks, id)
    IN IF id = 0 THEN Outcome(sv.tasks, sv.queued, sv.fresh, NoTask, TRUE, "Invalid id")
       ELSE IF fails THEN Outcome(sv.tasks, sv.queued, sv.fresh, NoTask, TRUE, "SQLITE_ERROR")
       ELSE IF x = 0 \/ sv.tasks[x].is_deleted
            THEN Outcome(sv.tasks, sv.queued, sv.fresh, NoTask, FALSE, "")
       ELSE IF updates.title = Absent
            THEN Outcome(sv.tasks, sv.queued, sv.fresh, sv.tasks[x], FALSE, "")
       ELSE LET row == [sv.tasks[x] EXCEPT !.title = updates.title, !.updated_at = t]
            IN Outcome([sv.tasks EXCEPT ![x] = row], sv.queued + 1, sv.fresh, row, FALSE, "")

\* a deleteTask that removes the row
TaskServiceDeleteTaskHard(sv, id, t, fails) ==
    LET x == ServerRow(sv.tasks, id)
    IN IF id = 0 THEN Outcome(sv.tasks, sv.queued, sv.fresh, NoTask, TRUE, "Invalid id")
       ELSE IF fails THEN Outcome(sv.tasks, sv.queued, sv.fresh, NoTask, TRUE, "SQLITE_ERROR")
       ELSE IF x = 0
            THEN Outcome(sv.tasks, sv.queued, sv.fresh, NoTask, FALSE, "")
       ELSE Outcome(SelectSeq(sv.tasks, LAMBDA r : r.id # id),
                    sv.queued + 1, sv.fresh, NoTask, FALSE, "")

\* TaskService.deleteTask(id); fails: the first statement is rejected
TaskServiceDeleteTask(sv, id, t, fails) ==
    LET x == ServerRow(sv.tasks, id)
    IN IF id = 0 THEN Outcome(sv.tasks, sv.queued, sv.fresh, NoTask, TRUE, "Invalid id")
       ELSE IF fails THEN Outcome(sv.tasks, sv.queued, sv.fresh, NoTask, TRUE, "SQLITE_ERROR")
       ELSE IF x = 0 \/ sv.tasks[x].is_deleted
            THEN Outcome(sv.tasks, sv.queued, sv.fresh, NoTask, FALSE, "")
       ELSE Outcome([sv.tasks EXCEPT ![x] = [@ EXCEPT !.is_deleted = TRUE, !.updated_at = t]],
                    sv.queued + 1, sv.fresh, NoTask, FALSE, "")

\* an entry of processed_items; server_id 0 is the empty string, resolved
\* NoTask is no resolved_data
Disposition(client_id, server_id, status, resolved, error) ==
    [client_id |-> client_id, server_id |-> server_id, status |-> status,
     resolved |-> resolved, error |-> error]

\* one turn of the handler's loop over the items: what TaskService did and
\* the entry pushed
HandleItem(sv, it, t, fails) ==
    IF it.operation = "create"
    THEN LET o == TaskServiceCreateTask(sv, it.data, t, fails)
         IN [o |-> o,
             d |-> IF o.threw THEN Disposition(it.id, 0, "error", NoTask, o.error)
                   ELSE Disposition(it.id, o.ret.id, "success", o.ret, "")]
    ELSE IF it.operation = "update"
    THEN LET o == TaskServiceUpdateTask(sv, it.task_id, it.data, t, fails)
         IN [o |-> o,
             d |-> IF o.threw THEN Disposition(it.id, 0, "error", NoTask, o.error)
                   ELSE Disposition(it.id, o.ret.id, "success", o.ret, "")]
    ELSE IF it.operation = "delete"
    THEN LET o == TaskServiceDeleteTask(sv, it.task_id, t, fails)
         IN [o |-> o,
             d |-> IF o.threw THEN Disposition(it.id, 0, "error", NoTask, o.error)
                   ELSE Disposition(it.id, it.task_id, "success", NoTask, "")]
    ELSE [o |-> Outcome(sv.tasks, sv.queued, sv.fresh, NoTask, FALSE, ""),
          d |-> Disposition(it.id, 0, "error", NoTask, "Unknown operation")]

\* POST /batch arrives; a body without an items array is answered 400
PostBatch(wellFormed, items) ==
    /\ srv.pc \in {"idle", "responded"}
    /\ srv.requests < MaxRequests
    /\ srv' = [srv EXCEPT !.requests = @ + 1,
                          !.items = IF wellFormed THEN items ELSE <<>>,
                          !.k = 1,
                          !.out = <<>>,
                          !.status = IF wellFormed THEN 0 ELSE 400,
                          !.pc = IF wellFormed THEN "items" ELSE "responded"]
    /\ UNCHANGED <<other, tasks, queue, inflight, now, nextId, maxRetries, batchSize, enq, pc,
                   allItems, i, rest, result, hist, passes, ev, resolve>>

\* a handler that gives up on the batch at the first item that throws
BatchItemStopsOnError(fails) ==
    /\ srv.pc = "items"
    /\ srv.k <= Len(srv.items)
    /\ LET h == HandleItem(srv, srv.items[srv.k], now, fails)
       IN srv' = [srv EXCEPT !.tasks = h.o.tasks,
                             !.queued = h.o.queued,
                             !.fresh = h.o.fresh,
                             !.out = Append(@, h.d),
                             !.k = IF h.o.threw THEN Len(srv.items) + 1 ELSE @ + 1]
    /\ UNCHANGED <<other, tasks, queue, inflight, now, nextId, maxRetries, batchSize, enq, pc,
                   allItems, i, rest, result, hist, passes, ev, resolve>>

\* the handler processes the next item
BatchItem(fails) ==
    /\ srv.pc = "items"
    /\ srv.k <= Len(srv.items)
    /\ LET h == HandleItem(srv, srv.items[srv.k], now, fails)
       IN srv' = [srv EXCEPT !.tasks = h.o.tasks,
                             !.queued = h.o.queued,
                             !.fresh = h.o.fresh,
                             !.out = Append(@, h.d),
                             !.k = @ + 1]
    /\ UNCHANGED <<other, tasks, queue, inflight, now, nextId, maxRetries, batchSize, enq, pc,
                   allItems, i, rest, result, hist, passes, ev, resolve>>

\* res.json({ processed_items })
BatchRespond ==
    /\ srv.pc = "items"
    /\ srv.k > Len(srv.items)
    /\ srv' = [srv EXCEPT !.pc = "responded", !.status = 200]
    /\ UNCHANGED <<other, tasks, queue, inflight, now, nextId, maxRetries, batchSize, enq, pc,
                   allItems, i, rest, result, hist, passes, ev, resolve>>

NextServer ==
    \/ Tick
    \/ /\ srv.requests < MaxRequests
       /\ \E wellFormed \in BOOLEAN, items \in BatchItems(srv.fresh) :
             PostBatch(wellFormed, items)
    \/ \E fails \in BOOLEAN : BatchItem(fails)
    \/ BatchRespond

\* the server's tables after createTask was called for some tasks (POST
\* /tasks), some of them deleted since
ServerTables ==
    UNION {{[x \in 1..n |-> [id |-> x, title |-> Str("old"), created_at |-> c[x],
                             updated_at |-> c[x], is_deleted |-> d[x]]] :
              c \in {e \in [1..n -> 0..MaxTime] :
                        \A x \in 1..n, y \in 1..n : x < y => e[x] <= e[y]},
              d \in [1..n -> BOOLEAN]} :
           n \in 0..MaxServerRows}

InitServer ==
    /\ tasks = << >>
    /\ queue = << >>
    /\ inflight = << >>
    /\ now \in 0..MaxTime
    /\ nextId = 1
    /\ maxRetries = 1
    /\ batchSize = 1
    /\ enq = EnqIdle
    /\ pc = "idle"
    /\ allItems = << >>
    /\ i = 1
    /\ rest = << >>
    /\ result = NewResult
    /\ hist = [id \in ItemIds |-> NoHist]
    /\ passes = 0
    /\ ev = ""
    /\ resolve = NotResolving
    /\ \E rows \in ServerTables :
          /\ \A x \in 1..Len(rows) : rows[x].updated_at <= now
          /\ srv = [SrvIdle EXCEPT !.tasks = rows, !.fresh = Len(rows) + 1]
    /\ other = NoOther

SpecServer == InitServer /\ [][NextServer]_vars

\* ------------------------------------------------ two trigger requests at once
\* The handler written for POST /sync awaits checkConnectivity() and then
\* sync(); neither it nor sync() holds a lock or a flag, so a second request
\* that arrives while the first pass is suspended at an await runs the same
\* code over the same store. The second call keeps its locals in other.

\* the queues the two requests find: up to MaxItems items enqueued at one instant
TriggerQueues ==
    {q \in DrainedQueues : Len(q) <= MaxItems /\ \A x \in 1..Len(q) : q[x].created_at = 0}

InitTrigger ==
    /\ queue \in TriggerQueues
    /\ tasks = TasksOf(queue)
    /\ inflight = << >>
    /\ now = MaxTime
    /\ nextId = Len(queue) + 1
    /\ maxRetries = 2
    /\ batchSize = 2
    /\ enq = EnqIdle
    /\ pc = "idle"
    /\ allItems = << >>
    /\ i = 1
    /\ rest = << >>
    /\ result = NewResult
    /\ hist = [id \in ItemIds |-> NoHist]
    /\ passes = 0
    /\ ev = ""
    /\ resolve = NotResolving
    /\ srv = SrvIdle
    /\ other = NoOther

\* the slice the second call dispatches
OtherBatch ==
    JsSlice(other.allItems, Plus(other.i, 0 - 1), Plus(Plus(other.i, 0 - 1), batchSize))

\* the second call after an uninterrupted run of its batch loop
OtherContinue(acc, fifo) ==
    /\ hist' = acc.hist
    /\ IF acc.next = "get"
       THEN /\ other' = [other EXCEPT !.pc = "get", !.rest = acc.rest, !.result = acc.result]
            /\ inflight' = fifo \o acc.issued \o
                  <<Awaited("getTaskById",
                            OtherBatch[Find(OtherBatch, Head(acc.rest).client_id)].task_id,
                            "sync2")>>
       ELSE /\ other' = [other EXCEPT
                            !.pc = IF Less(Plus(Plus(other.i, batchSize), 0 - 1),
                                           Len(other.allItems))
                                   THEN "batch" ELSE "returned",
                            !.rest = <<>>,
                            !.result = acc.result,
                            !.i = Plus(other.i, batchSize)]
            /\ inflight' = fifo \o acc.issued

\* the second request: checkConnectivity returns and sync() is called, whatever
\* the first call is doing; when online, up to the awaited getAllSyncQueueItems
OtherSyncCheckConnectivity(online) ==
    /\ other.pc = "idle"
    /\ other' = [NoOther EXCEPT !.pc = IF online THEN "drain" ELSE "returned",
                                !.result = IF online THEN NewResult ELSE Unreachable]
    /\ inflight' = IF online
                   THEN Append(inflight, Awaited("getAllSyncQueueItems", "", "sync2"))
                   ELSE inflight
    /\ UNCHANGED <<srv, resolve, tasks, queue, now, nextId, maxRetries, batchSize, enq, pc,
                   allItems, i, rest, result, hist, passes, ev>>

\* the SELECT of the second call's getAllSyncQueueItems runs
OtherSyncGetAll ==
    /\ inflight # <<>>
    /\ Head(inflight).op = "getAllSyncQueueItems"
    /\ Head(inflight).by = "sync2"
    /\ LET drained == GetAllSyncQueueItems(queue)
       IN other' = [other EXCEPT !.allItems = drained,
                                 !.pc = IF Len(drained) = 0 THEN "returned" ELSE "batch"]
    /\ inflight' = Tail(inflight)
    /\ UNCHANGED <<srv, resolve, tasks, queue, now, nextId, maxRetries, batchSize, enq, pc,
                   allItems, i, rest, result, hist, passes, ev>>

\* processBatch of the second call throws
OtherSyncBatchFails ==
    /\ other.pc = "batch"
    /\ OtherContinue(CatchBlock(Run(<<>>, other.result, hist, "end", <<>>), OtherBatch,
                                "Network Error"), inflight)
    /\ UNCHANGED <<srv, resolve, tasks, queue, now, nextId, maxRetries, batchSize, enq, pc,
                   allItems, i, rest, result, passes, ev>>

\* processBatch of the second call returns the server's response
OtherSyncBatchResponse(resp) ==
    /\ other.pc = "batch"
    /\ OtherContinue(ApplyResults(Run(<<>>, other.result, hist, "end", <<>>), OtherBatch,
                                  resp), inflight)
    /\ UNCHANGED <<srv, resolve, tasks, queue, now, nextId, maxRetries, batchSize, enq, pc,
                   allItems, i, rest, result, passes, ev>>

\* the SELECT of the getTaskById the second call awaits runs
OtherSyncGetTaskById ==
    /\ inflight # <<>>
    /\ Head(inflight).op = "getTaskById"
    /\ Head(inflight).by = "sync2"
    /\ LET batch == OtherBatch
           processed == Head(other.rest)
           queueItem == batch[Find(batch, processed.client_id)]
           done == ApplyConflict(Run(<<>>, other.result, hist, "end", <<>>), batch,
                                 queueItem, processed, tasks)
       IN OtherContinue(IF done.next = "more"
                        THEN ApplyResults(done, batch, Tail(other.rest))
                        ELSE done,
                        Tail(inflight))
    /\ UNCHANGED <<srv, resolve, tasks, queue, now, nextId, maxRetries, batchSize, enq, pc,
                   allItems, i, rest, result, passes, ev>>

NextTrigger ==
    \/ \E online \in BOOLEAN : SyncCheckConnectivity(online)
    \/ \E online \in BOOLEAN : OtherSyncCheckConnectivity(online)
    \/ SyncGetAll
    \/ OtherSyncGetAll
    \/ SyncBatchFails
    \/ OtherSyncBatchFails
    \/ pc = "batch" /\ \E resp \in Responses(CurrentBatch) : SyncBatchResponse(resp)
    \/ other.pc = "batch" /\ \E resp \in Responses(OtherBatch) : OtherSyncBatchResponse(resp)
    \/ SyncGetTaskById
    \/ OtherSyncGetTaskById
    \/ DbUpdateTaskGet
    \/ DbUpsertTask
    \/ DbDeleteSyncQueueItem

SpecTrigger == InitTrigger /\ [][NextTrigger]_vars

\* ------------------------------------------------------------ repeated passes
\* sync() is called again and again over a queue nothing is added to, with the
\* server reachable; a call is made when the earlier one has returned and the
\* connection has run the statements it left behind. passes counts the calls
\* up to maxRetries.

\* the queues the passes start from: the items are for different tasks or
\* all for one task
RepeatQueues ==
    TriggerQueues \cup
    {[x \in 1..Len(q) |-> [q[x] EXCEPT !.task_id = "t1"]] : q \in TriggerQueues}

InitRepeat ==
    /\ queue \in RepeatQueues
    /\ tasks = TasksOf(queue)
    /\ inflight = << >>
    /\ now = MaxTime
    /\ nextId = Len(queue) + 1
    /\ maxRetries \in {1, 2}
    /\ batchSize = 2
    /\ enq = EnqIdle
    /\ pc = "idle"
    /\ allItems = << >>
    /\ i = 1
    /\ rest = << >>
    /\ result = NewResult
    /\ hist = [id \in ItemIds |-> NoHist]
    /\ passes = 0
    /\ ev = ""
    /\ resolve = NotResolving
    /\ srv = SrvIdle
    /\ other = NoOther

\* sync() is called once more and checkConnectivity returns true: up to the
\* awaited getAllSyncQueueItems
SyncRepeated ==
    /\ pc \in {"idle", "returned"}
    /\ inflight = <<>>
    /\ passes' = Min(passes + 1, maxRetries)
    /\ ev' = "reachable"
    /\ result' = NewResult
    /\ pc' = "drain"
    /\ inflight' = <<Awaited("getAllSyncQueueItems", "", "sync")>>
    /\ allItems' = <<>>
    /\ i' = 1
    /\ rest' = <<>>
    /\ hist' = [id \in ItemIds |-> [hist[id] EXCEPT !.synced = 0, !.failed = 0]]
    /\ UNCHANGED <<other, srv, resolve, tasks, queue, now, nextId, maxRetries, batchSize, enq>>

\* the connection runs the statement at the head of its queue
ConnectionStep ==
    \/ SyncGetAll
    \/ SyncGetTaskById
    \/ DbUpdateTaskGet
    \/ DbUpsertTask
    \/ DbDeleteSyncQueueItem

\* the POST of processBatch settles: it throws or returns a response
TransportStep ==
    \/ SyncBatchFails
    \/ pc = "batch" /\ \E resp \in Responses(CurrentBatch) : SyncBatchResponse(resp)

NextRepeat ==
    \/ SyncRepeated
    \/ ConnectionStep
    \/ TransportStep

\* sqlite runs every statement handed to it, every request settles, and the
\* caller keeps calling
SpecRepeat ==
    /\ InitRepeat
    /\ [][NextRepeat]_vars
    /\ WF_vars(SyncRepeated)
    /\ WF_vars(ConnectionStep)
    /\ WF_vars(TransportStep)

\* ------------------------------------------------- a pass per SYNC_BATCH_SIZE
\* the settings of SYNC_BATCH_SIZE: unset, empty, or a string
BatchSizeSettings == {Undef, Str(""), Str("0"), Str("-1"), Str("abc"), Str("1"), Str("2")}

\* Number(string) for the strings above
ParseNumber(str) ==
    CASE str = "" -> 0
      [] str = "0" -> 0
      [] str = "-1" -> 0 - 1
      [] str = "1" -> 1
      [] str = "2" -> 2
      [] OTHER -> NaN

\* the constructor: Number(process.env.SYNC_BATCH_SIZE || 10)
ConfiguredBatchSize(env) == IF Truthy(env) THEN ParseNumber(env.s) ELSE 10

\* sync() of a service constructed under one of the settings has passed the
\* connectivity check and awaits getAllSyncQueueItems
InitConfigured ==
    /\ queue \in DrainedQueues
    /\ tasks = TasksOf(queue)
    /\ inflight = <<Awaited("getAllSyncQueueItems", "", "sync")>>
    /\ now = MaxTime
    /\ nextId = Len(queue) + 1
    /\ maxRetries = 2
    /\ batchSize \in {ConfiguredBatchSize(env) : env \in BatchSizeSettings}
    /\ enq = EnqIdle
    /\ pc = "drain"
    /\ allItems = << >>
    /\ i = 1
    /\ rest = << >>
    /\ result = NewResult
    /\ hist = [id \in 1..MaxDrained |-> NoHist]
    /\ passes = 1
    /\ ev = "reachable"
    /\ resolve = NotResolving
    /\ srv = SrvIdle
    /\ other = NoOther

\* every request fails in transport; the loop is followed for MaxTurns turns
\* below the start of the array
NextConfigured ==
    \/ SyncGetAll
    \/ i + MaxTurns > 0 /\ SyncBatchFails
    \/ DbDeleteSyncQueueItem

SpecConfigured == InitConfigured /\ [][NextConfigured]_vars

\* ----------------------------------------------------------------- claims
\* the sync_queue row of item id is there
Queued(id) == \E y \in 1..Len(queue) : queue[y].id = id

\* the sync_status column of the entity's row is status
EntityIs(task_id, status) ==
    task_id \in DOMAIN tasks /\ tasks[task_id].sync_status = Str(status)

\* A pass that passed the connectivity check has returned, the connection has
\* run every statement handed to it, and every item ever enqueued was in the
\* queue when the pass drained it.
PassSettled ==
    /\ pc = "returned"
    /\ ev \notin {"", "unreachable"}
    /\ inflight = <<>>
    /\ enq.pc = "idle"
    /\ \A id \in 1..(nextId - 1) : \E x \in 1..Len(allItems) : allItems[x].id = id

\* the pass got a disposition for the item, or the transport call of its
\* batch failed
Attempted(id) == hist[id].failed >= 1 \/ hist[id].success \/ hist[id].remote

\* C1: after a pass that passed the connectivity check, every item drained at
\* its start and attempted is either still queued with its stored retry_count
\* one higher and its entity not synced, or gone from the queue with its
\* entity synced or error.
C1_QueuedOrSettled ==
    PassSettled =>
        \A x \in 1..Len(allItems) :
            LET item == allItems[x]
            IN Attempted(item.id) =>
                  \/ /\ \E y \in 1..Len(queue) :
                           /\ queue[y].id = item.id
                           /\ queue[y].retry_count = item.retry_count + 1
                     /\ ~EntityIs(item.task_id, "synced")
                  \/ /\ ~Queued(item.id)
                     /\ EntityIs(item.task_id, "synced") \/ EntityIs(item.task_id, "error")

\* C2: an item whose attempt failed is gone from the queue, with its entity in
\* state error, exactly when that failure took its retry count to max_retries;
\* below max_retries it is still queued.
C2_RetryCeiling ==
    PassSettled =>
        \A x \in 1..Len(allItems) :
            LET item == allItems[x]
                h == hist[item.id]
            IN (h.failed >= 1 /\ ~h.success /\ ~h.remote) =>
                  IF item.retry_count + 1 >= maxRetries
                  THEN ~Queued(item.id) /\ EntityIs(item.task_id, "error")
                  ELSE Queued(item.id)

\* C3: a failure recorded for an item below the ceiling leaves its row in the
\* queue with retry_count one higher and the failure message stored.
C3_FailureRecorded ==
    PassSettled =>
        \A x \in 1..Len(allItems) :
            LET item == allItems[x]
                h == hist[item.id]
            IN (h.failed = 1 /\ ~h.ceiling /\ ~h.success /\ ~h.remote) =>
                  \E y \in 1..Len(queue) :
                      /\ queue[y].id = item.id
                      /\ queue[y].retry_count = item.retry_count + 1
                      /\ queue[y].error_message.k = "string"

\* C4: the step of sync() on an unreachable probe returns success = false with
\* exactly one error (the connectivity error) and zero counts, hands nothing
\* to the connection and leaves both tables as they are.
C4_UnreachableAborts ==
    [][(ev' = "unreachable" /\ passes' # passes) =>
          /\ pc' = "returned"
          /\ result'.success = FALSE
          /\ Len(result'.errors) = 1
          /\ result'.errors[1].operation = "connectivity"
          /\ result'.synced_items = 0
          /\ result'.failed_items = 0
          /\ queue' = queue
          /\ tasks' = tasks
          /\ inflight' = inflight]_vars

\* an unreachable probe met a queue and a task table that were not empty
C4_Witness ==
    /\ ev = "unreachable"
    /\ pc = "returned"
    /\ result = Unreachable
    /\ queue # <<>>
    /\ DOMAIN tasks # {}

\* the response that reports error for every item of the batch
AllRejected(batch, error) ==
    [x \in 1..Len(batch) |->
        Processed(batch[x].id, "error", Undef, FALSE, NoFields, Str(error))]

\* C5: a failed transport call for a batch of N items adds N to failed_items
\* and N errors (one per item, in batch order), adds nothing to synced_items,
\* and hands the connection the statements, and leaves the result, that an
\* error disposition for each item would.
C5_TransportFailsBatch ==
    [][(ev' = "transport" /\ i' # i) =>
          LET batch == CurrentBatch
              N == Len(batch)
              perItem == ApplyResults(Run(<<>>, result, hist, "end", <<>>), batch,
                                      AllRejected(batch, "Network Error"))
          IN /\ result'.failed_items = result.failed_items + N
             /\ Len(result'.errors) = Len(result.errors) + N
             /\ \A x \in 1..N :
                    result'.errors[Len(result.errors) + x].task_id = batch[x].task_id
             /\ result'.synced_items = result.synced_items
             /\ \A x \in 1..N : hist'[batch[x].id].synced = hist[batch[x].id].synced
             /\ result' = perItem.result
             /\ hist' = perItem.hist
             /\ inflight' = inflight \o perItem.issued]_vars

\* the transport call failed for a batch of two items
C5_Witness ==
    /\ ev = "transport"
    /\ batchSize = 2
    /\ Len(allItems) = 2
    /\ result.failed_items = 2
    /\ Len(result.errors) = 2
    /\ result.synced_items = 0

\* resp has exactly one disposition for each item of the batch
OnePerItem(batch, resp) ==
    /\ Len(resp) = Len(batch)
    /\ \A x \in 1..Len(batch) :
           Cardinality({y \in 1..Len(resp) : resp[y].client_id = batch[x].id}) = 1

\* C6: for a batch whose response is applied without a storage read, every
\* permutation of the response gives the same counts, and the same tables once
\* the connection has run the statements.
C6_OrderIndependent ==
    (pc = "batch" /\ inflight = <<>> /\ enq.pc = "idle") =>
        \A resp \in Responses(CurrentBatch) :
            \A p \in Permutations(1..Len(resp)) :
                LET start == Run(<<>>, result, hist, "end", <<>>)
                    a == ApplyResults(start, CurrentBatch, resp)
                    b == ApplyResults(start, CurrentBatch,
                                      [x \in 1..Len(resp) |-> resp[p[x]]])
                IN (OnePerItem(CurrentBatch, resp) /\ a.next = "end" /\ b.next = "end") =>
                      /\ a.result.synced_items = b.result.synced_items
                      /\ a.result.failed_items = b.result.failed_items
                      /\ Settle(tasks, queue, a.issued, now) = Settle(tasks, queue, b.issued, now)

\* C7: an item that got a success disposition is gone from the queue, its
\* entity is synced with last_synced_at set and the remote identifier the
\* disposition carried, and it added 1 to synced_items and 0 to failed_items.
C7_SuccessApplied ==
    PassSettled =>
        \A x \in 1..Len(allItems) :
            LET item == allItems[x]
                h == hist[item.id]
            IN h.success =>
                  /\ EntityIs(item.task_id, "synced")
                  /\ tasks[item.task_id].last_synced_at # NullV
                  /\ Truthy(h.server_id) => tasks[item.task_id].server_id = h.server_id
                  /\ ~Queued(item.id)
                  /\ h.synced = 1
                  /\ h.failed = 0

\* C8: an item whose row is gone from the queue got a success disposition, or
\* had its conflict resolved and applied, or reached the retry ceiling.
C8_RemovedOnlyWhenSettled ==
    \A id \in 1..(nextId - 1) :
        (~(enq.pc = "insert" /\ enq.id = id) /\ ~Queued(id)) =>
            \/ hist[id].success
            \/ hist[id].winner \in {"server", "local"}
            \/ hist[id].ceiling

\* the remote snapshot that is later than every local write
RemoteLater == WireTask(MaxTime + 1)

\* C9: when the remote version of a conflict is strictly later, after the pass
\* the entity's row carries the remote snapshot's values, is synced, and the
\* item is gone from the queue.
C9_RemoteWins ==
    PassSettled =>
        \A x \in 1..Len(allItems) :
            LET item == allItems[x]
            IN hist[item.id].winner = "server" =>
                  /\ EntityIs(item.task_id, "synced")
                  /\ tasks[item.task_id].title = RemoteLater.title
                  /\ tasks[item.task_id].completed = Num(1)
                  /\ tasks[item.task_id].updated_at = RemoteLater.updated_at
                  /\ tasks[item.task_id].server_id = RemoteLater.server_id
                  /\ ~Queued(item.id)

\* C10: an item that got a conflict disposition carrying a remote version is
\* gone from the queue after the pass, its entity is synced, it added 1 to
\* synced_items, and no failure was recorded for it, whichever side won.
C10_ConflictSettled ==
    PassSettled =>
        \A x \in 1..Len(allItems) :
            LET item == allItems[x]
                h == hist[item.id]
            IN h.remote =>
                  /\ ~Queued(item.id)
                  /\ EntityIs(item.task_id, "synced")
                  /\ h.winner = "server" => tasks[item.task_id].title = RemoteLater.title
                  /\ h.synced = 1
                  /\ h.fails = 0

\* C11: an item whose only disposition was a conflict without a remote
\* version added 1 to failed_items and one error entry, its entity is not
\* synced, and unless its retry count reached the ceiling its row is still in
\* the queue with retry_count one higher.
C11_ConflictWithoutVersion ==
    PassSettled =>
        \A x \in 1..Len(allItems) :
            LET item == allItems[x]
                h == hist[item.id]
            IN (h.nodata /\ h.failed = 1 /\ ~h.success /\ ~h.remote) =>
                  /\ \E e \in 1..Len(result.errors) :
                         /\ result.errors[e].task_id = item.task_id
                         /\ result.errors[e].error = "Conflict resolved failed: no resolved data"
                  /\ ~EntityIs(item.task_id, "synced")
                  /\ h.ceiling \/ \E y \in 1..Len(queue) :
                                      /\ queue[y].id = item.id
                                      /\ queue[y].retry_count = item.retry_count + 1

\* the statements of stmts that touch neither the queue row of item nor the
\* row of its entity
AboutOthers(stmts, item) ==
    LET Keep(st) == /\ ~(st.op = "deleteSyncQueueItem" /\ st.qid = item.id)
                    /\ ~(st.op = "updateTask.get" /\ st.task_id = item.task_id)
    IN SelectSeq(stmts, Keep)

\* C12: when the response reports error for an item of the batch, what the
\* disposition loop does for every other item (the statements on other queue
\* rows and other entities, their history, the synced count, where the loop
\* stops) is what it does for the batch and the response without that item,
\* and the item adds to failed_items only its own failures.
C12_ErrorIsScoped ==
    pc = "batch" =>
        \A resp \in Responses(CurrentBatch) :
            \A x \in 1..Len(CurrentBatch) :
                LET batch == CurrentBatch
                    item == batch[x]
                    NotItem(b) == b.id # item.id
                    NotMine(d) == d.client_id # item.id
                    start == Run(<<>>, result, hist, "end", <<>>)
                    with == ApplyResults(start, batch, resp)
                    without == ApplyResults(start, SelectSeq(batch, NotItem),
                                            SelectSeq(resp, NotMine))
                IN (/\ \E y \in 1..Len(resp) : resp[y].client_id = item.id
                    /\ \A y \in 1..Len(resp) :
                           resp[y].client_id = item.id => resp[y].status = "error") =>
                      /\ AboutOthers(with.issued, item) = AboutOthers(without.issued, item)
                      /\ \A b \in 1..Len(batch) :
                             b # x => with.hist[batch[b].id] = without.hist[batch[b].id]
                      /\ with.next = without.next
                      /\ SelectSeq(with.rest, NotMine) = without.rest
                      /\ with.result.synced_items = without.result.synced_items
                      /\ with.result.failed_items - without.result.failed_items
                            = with.hist[item.id].failed - hist[item.id].failed

\* a batch of two items of different entities got a response that reports
\* error for the first and success for the second
C12_Witness ==
    /\ ev = "response"
    /\ Len(allItems) = 2
    /\ batchSize = 2
    /\ allItems[1].task_id # allItems[2].task_id
    /\ hist[allItems[1].id].failed >= 1
    /\ ~hist[allItems[1].id].success
    /\ hist[allItems[2].id].success
    /\ Len(result.errors) >= 2
    /\ result.errors[1].error = "rejected"

\* updated_at is there and parses
ValidStamp(v) == Truthy(v) /\ UpdatedOrEpoch(v) # InvalidDate

\* C13: for a local and a remote version whose updated_at are both valid,
\* resolveConflict returns the remote version when its updated_at is strictly
\* later and the local version when it is equal or earlier.
C13_LastWriteWins ==
    (/\ resolve.phase = "returned"
     /\ ValidStamp(resolve.localTask.updated_at)
     /\ ValidStamp(resolve.serverTask.updated_at)) =>
        resolve.chosen = IF resolve.serverTask.updated_at.n > resolve.localTask.updated_at.n
                         THEN "server" ELSE "local"

\* resolveConflict returned the remote version, one instant later than the
\* local one
C13_Witness ==
    /\ resolve.phase = "returned"
    /\ resolve.localTask.updated_at = DateV(1)
    /\ resolve.serverTask.updated_at = Iso(2)
    /\ resolve.chosen = "server"

\* C14: when the updated_at of the local or of the remote version is missing
\* or does not parse, resolveConflict returns the local version.
C14_MissingStampKeepsLocal ==
    (/\ resolve.phase = "returned"
     /\ \/ ~ValidStamp(resolve.localTask.updated_at)
        \/ ~ValidStamp(resolve.serverTask.updated_at)) =>
        resolve.chosen = "local"

\* C14 as the code has it: a missing updated_at counts as the epoch and an
\* unparseable one never compares later. With a timestamp missing or
\* unparseable on either side, resolveConflict returns the remote version
\* exactly when the local updated_at is missing and the remote one is valid and
\* later than the epoch; in every other such case it returns the local version.
C14_MissingStampIsEpoch ==
    (/\ resolve.phase = "returned"
     /\ \/ ~ValidStamp(resolve.localTask.updated_at)
        \/ ~ValidStamp(resolve.serverTask.updated_at)) =>
        (resolve.chosen = "server" <=>
            /\ ~Truthy(resolve.localTask.updated_at)
            /\ ValidStamp(resolve.serverTask.updated_at)
            /\ resolve.serverTask.updated_at.n > 0)

\* a local version without updated_at was replaced by a remote version with a
\* valid one
C14_Witness ==
    /\ resolve.phase = "returned"
    /\ resolve.localTask.updated_at = Undef
    /\ resolve.serverTask.updated_at = Iso(1)
    /\ resolve.chosen = "server"

\* the pass got past the connectivity check
PassedProbe == passes >= 1 /\ ev # "unreachable"

\* C15: in a pass that passed the connectivity check, result.success is true
\* exactly when result.failed_items is 0, at the return and all along.
C15_SuccessIffNoFailure ==
    PassedProbe => (result.success <=> result.failed_items = 0)

\* a pass returned with one item failed and another one synced
C15_Witness ==
    /\ pc = "returned" /\ PassedProbe
    /\ result.failed_items = 1 /\ result.synced_items = 1
    /\ ~result.success

RECURSIVE SumFailed(_)
\* the failures of the pass, item by item
SumFailed(x) == IF x = 0 THEN 0 ELSE hist[allItems[x].id].failed + SumFailed(x - 1)

\* C16: in a pass that passed the connectivity check the error list is as long
\* as failed_items, failed_items is the number of failures of the drained
\* items, and each error entry names the entity id and the operation of an
\* item that failed.
C16_OneErrorPerFailure ==
    PassedProbe =>
        /\ Len(result.errors) = result.failed_items
        /\ result.failed_items = SumFailed(Len(allItems))
        /\ \A e \in 1..Len(result.errors) :
              \E x \in 1..Len(allItems) :
                  /\ allItems[x].task_id = result.errors[e].task_id
                  /\ allItems[x].operation = result.errors[e].operation
                  /\ hist[allItems[x].id].failed >= 1

\* a pass returned with two failures, both at the retry ceiling
C16_Witness ==
    /\ pc = "returned" /\ PassedProbe
    /\ result.failed_items = 2 /\ Len(result.errors) = 2
    /\ \A x \in 1..Len(allItems) : hist[allItems[x].id].ceiling

\* one step of the batch loop: it stays inside the batch at i, or it leaves
\* the batch for the next one, and returns only after the last
LoopStep ==
    pc \in {"batch", "get"} =>
        /\ allItems' = allItems
        /\ \/ pc' = pc /\ i' = i
           \/ pc' = "get" /\ i' = i
           \/ /\ i' = i + batchSize
              /\ pc' = IF i' <= Len(allItems) THEN "batch" ELSE "returned"

\* C17: after the connectivity check passed, whatever failed, the pass
\* returns only when the loop index is past the last drained item, and the
\* loop leaves each batch once, for the batch that follows it: no batch is
\* skipped and none is dispatched twice.
C17_EveryBatchDispatched ==
    /\ [](pc = "returned" /\ PassedProbe => i > Len(allItems))
    /\ [][LoopStep]_vars

\* the transport call of the first of two batches failed and the second batch
\* was dispatched all the same
C17_Witness ==
    /\ pc = "returned" /\ PassedProbe
    /\ batchSize = 1 /\ Len(allItems) = 2
    /\ result.errors # <<>> /\ result.errors[1].error = "Network Error"
    /\ hist[allItems[1].id].failed = 1
    /\ Attempted(allItems[2].id)

\* getAllSyncQueueItems returns: the drained sequence is the queue, oldest
\* first
DrainStep ==
    (pc = "drain" /\ pc' # "drain") =>
        /\ Len(allItems') = Len(queue)
        /\ \A x \in 1..Len(queue) : allItems'[x].id = queue[x].id
        /\ \A x \in 1..Len(queue), y \in 1..Len(queue) :
              x < y => allItems'[x].created_at <= allItems'[y].created_at

\* C18: the drained sequence is the queue in oldest-first order, and the
\* batch at each turn of the loop is the next consecutive run of it: it starts
\* right after the batches before it, which were all of the batch size, has at
\* most batch-size items, and has fewer only when it ends the sequence.
C18_ConsecutiveBatches ==
    /\ [][DrainStep]_vars
    /\ [](pc \in {"batch", "get"} =>
            /\ i \in 1..Len(allItems) /\ (i - 1) % batchSize = 0
            /\ Len(CurrentBatch) \in 1..batchSize
            /\ \A k \in 1..Len(CurrentBatch) : CurrentBatch[k] = allItems[i + k - 1]
            /\ Len(CurrentBatch) < batchSize => i + Len(CurrentBatch) - 1 = Len(allItems))

\* five drained items in batches of two: the third batch holds the last item
\* alone
C18_Witness ==
    /\ pc = "batch" /\ batchSize = 2 /\ Len(allItems) = 5 /\ i = 5
    /\ Len(CurrentBatch) = 1 /\ CurrentBatch[1].id = 5
    /\ result.failed_items = 4

\* C19: when the request of a batch after the first is out, no DELETE on the
\* queue that the dispositions of an earlier batch caused is still waiting on
\* the connection.
C19_WritesBeforeNextBatch ==
    (pc = "batch" /\ i > 1) =>
        \A x \in 1..Len(inflight) : inflight[x].op # "deleteSyncQueueItem"

\* C20: a step in which a read or a write of the queue or of the record store
\* fails makes sync() throw, and records nothing: the result and the failure
\* counts of the items are as before, and no statement is handed to the
\* connection for it.
C20_StorageFailurePropagates ==
    [][ev' = "storage" =>
          /\ pc' = "threw"
          /\ result' = result
          /\ hist' = hist
          /\ inflight' = Tail(inflight)]_vars

\* the place of the row with this id in the oldest-first order, 0 when the
\* queue does not hold it
PlaceOf(q, id) ==
    LET rows == OrderByCreatedAt(q)
    IN IF \E x \in 1..Len(rows) : rows[x].id = id
       THEN CHOOSE x \in 1..Len(rows) : rows[x].id = id
       ELSE 0

InQueue(id) == \E x \in 1..Len(queue) : queue[x].id = id

\* C22: of two removals of the same id, the second leaves the queue as the
\* first left it, and a removal of an id the queue does not hold leaves the
\* queue as it was; a removal of an id the queue holds takes out that row and
\* no other.
C22_RemoveIdempotent ==
    [][inflight # <<>> /\ inflight' = Tail(inflight) /\ Head(inflight).op = "deleteSyncQueueItem" =>
          LET id == Head(inflight).qid
          IN /\ ~InQueue(id) => queue' = queue
             /\ InQueue(id) => /\ Len(queue') = Len(queue) - 1
                               /\ \A x \in 1..Len(queue) :
                                     queue[x].id # id => \E y \in 1..Len(queue') : queue'[y] = queue[x]
             /\ \A x \in 1..Len(queue') : queue'[x].id # id]_vars

\* a row was removed from a queue of three, and the second removal of its id
\* has run too
C22_Witness ==
    /\ pc = "idle" /\ passes = 0 /\ inflight = <<>>
    /\ Len(queue) = 2 /\ nextId = 4
    /\ queue[1].id = 1 /\ queue[2].id = 3

\* C23: the INSERT of an enqueue adds one row with retry_count 0 and no error
\* message after the rows there were, and a step in which a statement issued
\* for an enqueue fails leaves that enqueue rejecting to its caller.
C23_EnqueueFailurePropagates ==
    [][/\ Len(queue') > Len(queue) =>
             /\ SubSeq(queue', 1, Len(queue)) = queue
             /\ Len(queue') = Len(queue) + 1
             /\ queue'[Len(queue')].retry_count = 0
             /\ queue'[Len(queue')].error_message = NullV
       /\ ev' = "storage" => enq'.pc = "threw"]_vars

\* C24: every row of table tasks whose sync_status is synced has a
\* last_synced_at that is not null.
C24_SyncedHasStamp ==
    \A t \in DOMAIN tasks :
        tasks[t].sync_status = Str("synced") =>
            /\ tasks[t].last_synced_at # NullV
            /\ tasks[t].last_synced_at.k = "string" /\ tasks[t].last_synced_at.s = "iso"

\* a conflict disposition was resolved for the local version and the row was
\* written as synced
C24_Witness ==
    \E t \in DOMAIN tasks :
        /\ tasks[t].sync_status = Str("synced")
        /\ tasks[t].last_synced_at = Iso(now)
        /\ \E id \in ItemIds : hist[id].remote /\ hist[id].winner = "local"

\* C25: every row of table tasks has updated_at >= created_at.
C25_UpdatedNotBeforeCreated ==
    \A t \in DOMAIN tasks : tasks[t].updated_at.n >= tasks[t].created_at.n

\* C26: when the pass reads an empty queue it returns in that step, with
\* success true, both counts 0 and no error, without a batch and without a
\* statement handed to the connection, and the tables are as they were; the
\* result it has returned stays that one.
C26_EmptyQueuePass ==
    /\ [][(pc = "drain" /\ pc' # "drain" /\ queue = <<>>) =>
             /\ pc' = "returned"
             /\ result' = NewResult
             /\ allItems' = <<>>
             /\ inflight' = Tail(inflight)
             /\ tasks' = tasks /\ queue' = queue
             /\ hist' = hist /\ i' = i]_vars
    /\ []((pc = "returned" /\ PassedProbe /\ allItems = <<>>) => result = NewResult)

\* a pass found the queue empty and has returned the zero-count result
C26_Witness ==
    /\ pc = "returned" /\ ev = "drain"
    /\ allItems = <<>> /\ queue = <<>>
    /\ result = NewResult
    /\ inflight = <<>>

\* C27: while the handler of POST /batch works on a well-formed request, the
\* entries it has pushed are one for each item it has gone through, in order,
\* each with the id of its item and a status among success, conflict and
\* error; an update or delete without a target id and an unknown operation
\* get error; and the response goes out with as many entries as there were
\* items.
C27_OneDispositionPerItem ==
    (srv.pc \in {"items", "responded"} /\ srv.status # 400) =>
        /\ Len(srv.out) = srv.k - 1
        /\ srv.k <= Len(srv.items) + 1
        /\ \A x \in 1..Len(srv.out) :
              /\ srv.out[x].client_id = srv.items[x].id
              /\ srv.out[x].status \in {"success", "conflict", "error"}
              /\ (srv.items[x].operation \in {"update", "delete"} /\ srv.items[x].task_id = 0)
                    => srv.out[x].status = "error"
              /\ srv.items[x].operation \notin {"create", "update", "delete"}
                    => srv.out[x].status = "error"
        /\ srv.pc = "responded" => Len(srv.out) = Len(srv.items)

\* the first of two items failed on the store and the second was created
C27_Witness ==
    /\ srv.pc = "responded" /\ srv.status = 200
    /\ Len(srv.items) = 2 /\ Len(srv.out) = 2
    /\ srv.out[1].status = "error" /\ srv.out[1].error = "SQLITE_ERROR"
    /\ srv.out[2].status = "success" /\ srv.items[2].operation = "create"
    /\ ServerRow(srv.tasks, srv.out[2].server_id) # 0

\* C28: a create item for a target id the server has no record of leaves a
\* record under that id and gets success; a create item for a target id the
\* server has a record of gets conflict with that record, and no record is
\* added.
C28_CreateOrConflict ==
    [][(srv.pc = "items" /\ srv'.k = srv.k + 1 /\ srv.items[srv.k].operation = "create"
        /\ srv'.out[srv.k].error # "SQLITE_ERROR") =>
          LET it == srv.items[srv.k]
              d == srv'.out[srv.k]
          IN IF ServerRow(srv.tasks, it.task_id) = 0
             THEN /\ d.status = "success"
                  /\ ServerRow(srv'.tasks, it.task_id) # 0
             ELSE /\ d.status = "conflict"
                  /\ d.resolved = srv.tasks[ServerRow(srv.tasks, it.task_id)]
                  /\ srv'.tasks = srv.tasks]_vars

\* C29: an update item for a target id the server has no record of leaves a
\* record under that id made from the payload and gets success with that
\* record.
C29_UpdateCreatesMissing ==
    [][(srv.pc = "items" /\ srv'.k = srv.k + 1 /\ srv.items[srv.k].operation = "update"
        /\ srv.items[srv.k].task_id # 0
        /\ srv'.out[srv.k].error # "SQLITE_ERROR"
        /\ ServerRow(srv.tasks, srv.items[srv.k].task_id) = 0) =>
          LET it == srv.items[srv.k]
              d == srv'.out[srv.k]
          IN /\ d.status = "success"
             /\ ServerRow(srv'.tasks, it.task_id) # 0
             /\ d.resolved = srv'.tasks[ServerRow(srv'.tasks, it.task_id)]]_vars

\* C30: an update item for a target id the server has a live record of gets
\* conflict with that record, which stays as it is, when the record's
\* updated_at is later than the payload's; otherwise the update is applied
\* and the item gets success.
C30_UpdateOrConflict ==
    [][(srv.pc = "items" /\ srv'.k = srv.k + 1 /\ srv.items[srv.k].operation = "update"
        /\ srv'.out[srv.k].error # "SQLITE_ERROR"
        /\ ServerRow(srv.tasks, srv.items[srv.k].task_id) # 0
        /\ ~srv.tasks[ServerRow(srv.tasks, srv.items[srv.k].task_id)].is_deleted) =>
          LET it == srv.items[srv.k]
              d == srv'.out[srv.k]
              x == ServerRow(srv.tasks, it.task_id)
          IN IF srv.tasks[x].updated_at > it.data.updated_at.n
             THEN /\ d.status = "conflict"
                  /\ d.resolved = srv.tasks[x]
                  /\ srv'.tasks = srv.tasks
             ELSE /\ d.status = "success"
                  /\ it.data.title # Absent => srv'.tasks[x].title = it.data.title]_vars

\* C31: a delete item with a target id, when no statement is rejected, gets
\* success whether the server has a live record, a deleted record or no record
\* under that id; no row leaves the table, a live record ends flagged deleted
\* with its other rows untouched, and a delete of a record that is deleted
\* already or is not there leaves the table as it was, so a second delete
\* changes nothing.
C31_DeleteIdempotent ==
    [][(srv.pc = "items" /\ srv'.k = srv.k + 1 /\ srv.items[srv.k].operation = "delete"
        /\ srv.items[srv.k].task_id # 0
        /\ srv'.out[srv.k].error # "SQLITE_ERROR") =>
          LET it == srv.items[srv.k]
              d == srv'.out[srv.k]
              x == ServerRow(srv.tasks, it.task_id)
          IN /\ d.status = "success"
             /\ Len(srv'.tasks) = Len(srv.tasks)
             /\ \A y \in 1..Len(srv.tasks) :
                   /\ srv'.tasks[y].id = srv.tasks[y].id
                   /\ y # x => srv'.tasks[y] = srv.tasks[y]
             /\ x # 0 => /\ srv'.tasks[x].is_deleted
                         /\ srv'.tasks[x].title = srv.tasks[x].title
             /\ (x = 0 \/ srv.tasks[x].is_deleted) => srv'.tasks = srv.tasks]_vars

\* the same live record was deleted by two items of one request: both got
\* success and the record is there, flagged deleted
C31_Witness ==
    /\ srv.pc = "responded" /\ Len(srv.items) = 2
    /\ srv.items[1].operation = "delete" /\ srv.items[2].operation = "delete"
    /\ srv.items[1].task_id = 1 /\ srv.items[2].task_id = 1
    /\ srv.out[1].status = "success" /\ srv.out[2].status = "success"
    /\ srv.queued = 1
    /\ Len(srv.tasks) = 1 /\ srv.tasks[1].is_deleted

\* the items the first call of sync() holds in the batch it is dispatching
Dispatching == IF pc \in {"batch", "get"} THEN {CurrentBatch[x].id : x \in 1..Len(CurrentBatch)} ELSE {}

\* the items the second call holds in the batch it is dispatching
OtherDispatching ==
    IF other.pc \in {"batch", "get"} THEN {OtherBatch[x].id : x \in 1..Len(OtherBatch)} ELSE {}

\* C32: of two trigger requests, one does not drain the queue before the pass
\* of the other has returned, and no queue item is in the batches two passes
\* are dispatching at the same time.
C32_PassesSerialized ==
    /\ ~(pc \in {"batch", "get"} /\ other.pc \in {"batch", "get"})
    /\ Dispatching \cap OtherDispatching = {}

\* C33: a createTask, updateTask or deleteTask that changed table tasks and
\* whose item was answered success has added exactly one row to sync_queue;
\* none reports success with the entity changed and no queue item added.
C33_MutationEnqueuesOne ==
    [][(srv.pc = "items" /\ srv'.k = srv.k + 1 /\ srv'.tasks # srv.tasks
        /\ srv'.out[srv.k].status = "success") =>
          srv'.queued = srv.queued + 1]_vars

\* C34: when a pass has returned, synced_items + failed_items is at most the
\* number of items it drained, and each drained item was counted at most once,
\* as synced or as failed, also when the response named it twice.
C34_CountedAtMostOnce ==
    pc = "returned" =>
        /\ result.synced_items + result.failed_items <= Len(allItems)
        /\ \A id \in ItemIds : hist[id].synced + hist[id].failed <= 1

\* C35: when a pass that drained items has returned, every drained item was
\* counted, as synced or as failed, also when the response held no disposition
\* for it, so synced_items + failed_items is not below the number of drained
\* items.
C35_EveryItemCounted ==
    pc = "returned" =>
        /\ \A x \in 1..Len(allItems) :
              hist[allItems[x].id].synced + hist[allItems[x].id].failed >= 1
        /\ result.synced_items + result.failed_items >= Len(allItems)

\* C36: with nothing enqueued meanwhile and the server reachable, repeated
\* passes empty the queue.
C36_QueueEmpties == <>(queue = <<>>)

\* C36, its bound: once maxRetries passes have returned and the connection has
\* run their statements, no item is left in the queue.
C36_WithinMaxRetries == (passes = maxRetries /\ pc = "returned" /\ inflight = <<>>) => queue = <<>>

\* C37: whatever SYNC_BATCH_SIZE is set to, a pass that has returned has
\* dispatched every item it drained (here every dispatched batch fails in
\* transport, so a dispatched item is one counted as failed).
C37_DispatchesEveryItem ==
    pc = "returned" =>
        \A x \in 1..Len(allItems) : hist[allItems[x].id].failed >= 1

\* C37, termination: a pass does not stay in the batch loop with an index
\* that does not advance.
C37_LoopAdvances ==
    [][(pc = "batch" /\ pc' = "batch") => i' > i]_vars

\* C38: the upsert of a permanent failure (the one that stores sync_status
\* error) leaves the entity's title, description, completed flag, soft-delete
\* flag, remote identifier, created_at and updated_at as they were.
C38_PermanentFailureFrame ==
    [][(/\ inflight # <<>>
        /\ Head(inflight).op = "updateTask.run"
        /\ Head(inflight).arg.sync_status = Str("error")
        /\ Head(inflight).task_id \in DOMAIN tasks
        /\ tasks' # tasks) =>
          \A f \in {"title", "description", "completed", "is_deleted", "server_id",
                    "created_at", "updated_at"} :
              tasks'[Head(inflight).task_id][f] = tasks[Head(inflight).task_id][f]]_vars

\* table tasks once the upserts among stmts have run, in order
RECURSIVE AfterUpserts(_, _)
AfterUpserts(rows, stmts) ==
    IF stmts = <<>> THEN rows
    ELSE AfterUpserts(IF Head(stmts).op \in {"updateTask.run", "insertTask.run"}
                      THEN UpsertTask(rows, Head(stmts).task_id, Head(stmts).arg)
                      ELSE rows,
                      Tail(stmts))

\* C39: the read of an updateTask sees what the updates issued before it
\* wrote: the row it goes on to write is the row it would write were the
\* upserts still waiting on the connection applied first, so no update is
\* lost to an overlap of two read-merge-write updates.
C39_UpdatesInIssueOrder ==
    (inflight # <<>> /\ Head(inflight).op = "updateTask.get") =>
        LET st == Head(inflight)
            read == UpdateTaskMerge(tasks, st.task_id, st.arg, now)
            serial == UpdateTaskMerge(AfterUpserts(tasks, Tail(inflight)), st.task_id,
                                      st.arg, now)
        IN /\ UpdateTaskThrows(read) <=> UpdateTaskThrows(serial)
           /\ ~UpdateTaskThrows(read) => UpdateTaskRow(read, now) = UpdateTaskRow(serial, now)

====
